---- MODULE Spec2Model ----
(***************************************************************************)
(* A model of the agent execution engine: the iteration driver             *)
(* (src/src/agent/agent.py, Agent.run and its helpers) and the scratchpad  *)
(* (src/src/agent/scratchpad.py) it journals to.                           *)
(*                                                                         *)
(* Strings are modelled by what the code asks of them.  A text is a record *)
(* [prefix, body]: prefix is "Error: " for a text built as                  *)
(* f"Error: {msg}" (or returned as such by a tool) and "" otherwise, so    *)
(* that startswith("Error:") is a test on the prefix.  An Optional[T]      *)
(* value is a set with at most one element (None is {}).  A dict is a      *)
(* function whose domain is its key set.  Timestamps are left out of the   *)
(* journal entries: no code path reads them.                               *)
(***************************************************************************)
EXTENDS Integers, Sequences, FiniteSets, TLC

\* ------------------------------------------------------------------ bounds
\* largest configured max_iterations the model draws
MaxIterCfg == 2
\* tool calls the model backend may request in one run, over all responses
MaxToolCalls == 2
\* exceptions the environment (model, tools, stores) may raise in one run
MaxFaults == 1

\* coroutines calling the session manager
MaxTasks == 2
\* append calls made on the session manager
MaxAppends == 2
\* process restarts of the session manager
MaxRestarts == 1

\* tokens of a session key passed to resolve_session_key
MaxKeyLen == 4
\* successive applications of resolve_session_key
MaxResolves == 2

\* save_context calls on one ToolContextManager
MaxSaves == 2
\* file paths handed to one load_contexts call
MaxLoadPaths == 2

\* record_tool_call calls on one scratchpad
MaxPadCalls == 4

\* entries held by one MemoryManager
MaxMemoryEntries == 2
\* latest created_at of an entry, in hours
MaxCreatedAt == 1
\* hours the wall clock may advance during one search
MaxTicks == 2

\* runs that make a Scratchpad, the seconds the clock may advance, and the
\* tool results one run appends
MaxRuns == 2
MaxSeconds == 1
MaxJournalAppends == 2

\* coroutines calling one BrowserSessionManager, the calls each makes, and
\* the max_sessions the manager is made with
MaxBrowserTasks == 2
MaxBrowserCalls == 2
max_sessions == 1

\* coroutines calling add on one MemoryManager
MaxAdds == 2

\* valid contexts handed to one _build_llm_selected_context call
MaxContexts == 3

\* coroutines calling one MessageHistory
MaxHistoryTasks == 2
\* calls each of them makes
MaxHistoryCalls == 2

\* ------------------------------------------------------- program constants
max_calls_per_tool == 3
TOKEN_BUDGET == 8000
MemoryMinAnswerLen == 50
\* `24 * 30` hours of decay, and the default limit of MemoryManager.search
DecayHours == 720
SearchLimit == 5

VARIABLES
    tools,             \* names of self.tools (tool_map keys)
    max_iterations,    \* self.max_iterations
    session_key,       \* Optional[str] argument of run, normalised by its first step
    pc,                \* position of the generator
    iteration,         \* local counter of run
    response,          \* the reasoning response being handled
    idx,               \* position in response.tool_calls
    cur,               \* locals of _execute_single_tool
    capped,            \* TRUE once the while loop ended by its condition
    full_context,      \* Optional result of _build_full_context
    events,            \* events yielded so far, in order
    file,              \* lines of the scratchpad journal file
    tool_call_counts,  \* Scratchpad.tool_call_counts
    tool_queries,      \* Scratchpad.tool_queries
    limit_check,       \* Optional last ToolLimitCheck returned
    session,           \* messages appended to the session of session_key
    memory,            \* entries added to the memory store
    pointers,          \* ToolContextManager.pointer
    error,             \* Optional propagated exception
    appended,          \* history: entries handed to Scratchpad._append
    dispatched,        \* history: tool calls handed to _execute_single_tool
    requested,         \* history: tool calls the model has requested
    reasoning_calls,   \* history: model calls made with tools enabled
    final_calls,       \* history: model calls made with tools disabled
    faults,            \* history: exceptions raised by the environment
    \* --- SessionManager (src/src/utils/session.py)
    cache,             \* SessionManager._cache
    disk,              \* the files under base_dir: path -> lines
    tasks,             \* the coroutines calling the manager, with their locals
    callers,           \* the coroutines that may be in a call at the same time
    returned,          \* history: messages whose append has returned, in order
    known_history,     \* history: Optional first list a load returned, followed
                       \* by the messages appended since
    \* --- resolve_session_key (src/src/utils/session.py)
    key_args,          \* the arguments of the first call
    key_results,       \* the keys returned by the successive calls
    \* --- ToolContextManager (src/src/utils/context.py)
    context_files,     \* the files under context_dir: filename -> ContextData
    context_pointer,   \* ToolContextManager.pointer
    context_saves,     \* history: the arguments of the save_context calls
    context_loaded,    \* Optional result of the last load_contexts
    \* --- MemoryManager.search (src/src/utils/memory.py)
    memory_entries,    \* MemoryManager.entries
    query_terms,       \* the terms of the query of the search under way
    clock,             \* the wall clock, in hours: what time.time() returns
    entry_pos,         \* position of the `for entry in self.entries` loop
    scored,            \* the local list scored
    search_result,     \* Optional list the search has returned
    \* --- MessageHistory (src/src/utils/message_history.py)
    history_messages,         \* MessageHistory.messages
    relevantMessagesByQuery,  \* MessageHistory.relevantMessagesByQuery
    selection_basis,          \* history: cache key -> the messages its prompt listed
    history_tasks,            \* the coroutines calling the history, with their locals
    \* --- Agent._build_llm_selected_context (src/src/agent/agent.py)
    valid_contexts,    \* the valid contexts handed to _build_llm_selected_context
    selection_response, \* Optional parsed answer of the selection call
    built_context,     \* Optional context the call has returned
    \* --- Scratchpad files of several runs (src/src/agent/scratchpad.py)
    journal_clock,     \* datetime.now() in whole seconds
    journal_files,     \* path -> lines, the files of tmp/scratchpad
    scratchpads,       \* run -> filepath of the run's Scratchpad
    own_entries,       \* run -> the entries the run has appended
    \* --- MemoryManager.add (src/src/utils/memory.py)
    manager_entries,   \* MemoryManager.entries
    manager_loaded,    \* MemoryManager.loaded
    index_json,        \* Optional content of index.json
    add_tasks,         \* coroutine -> position in add and the data it holds
    \* --- BrowserSessionManager (src/src/tools/browser/session.py)
    browser_sessions,  \* BrowserSessionManager._sessions: id -> has the session expired
    browser_open,      \* is BrowserSessionManager._browser set
    browser_lock,      \* Optional coroutine holding BrowserSessionManager._lock
    browser_tasks      \* coroutine -> its call and position in it

driverVars == <<tools, max_iterations, session_key, pc, iteration, response, idx,
                cur, capped, full_context, events, file, tool_call_counts,
                tool_queries, limit_check, session, memory, pointers, error,
                appended, dispatched, requested, reasoning_calls, final_calls,
                faults>>
storeVars == <<cache, disk, tasks, callers, returned, known_history>>
keyVars == <<key_args, key_results>>
contextVars == <<context_files, context_pointer, context_saves, context_loaded>>
memoryVars == <<memory_entries, query_terms, clock, entry_pos, scored, search_result>>
historyVars == <<history_messages, relevantMessagesByQuery, selection_basis, history_tasks>>
selectionVars == <<valid_contexts, selection_response, built_context>>
journalVars == <<journal_clock, journal_files, scratchpads, own_entries>>
managerVars == <<manager_entries, manager_loaded, index_json, add_tasks>>
browserVars == <<browser_sessions, browser_open, browser_lock, browser_tasks>>
\* the state of the utilities, which a run of the driver model leaves alone
libVars == <<storeVars, keyVars, contextVars, memoryVars, historyVars,
    selectionVars,
    journalVars,
    managerVars,
    browserVars>>
vars == <<driverVars, libVars>>

\* ------------------------------------------------------------------ helpers
EmptyDict == [k \in {} |-> k]
Get(d, k) == IF k \in DOMAIN d THEN {d[k]} ELSE {}
GetOr(d, k, default) == IF k \in DOMAIN d THEN d[k] ELSE default
Put(d, k, v) == (k :> v) @@ d
The(s) == CHOOSE x \in s : TRUE
Range(s) == {s[i] : i \in DOMAIN s}

RECURSIVE SeqsUpTo(_, _)
SeqsUpTo(S, n) ==
    IF n = 0 THEN {<< >>}
    ELSE LET shorter == SeqsUpTo(S, n - 1)
         IN shorter \cup {Append(s, x) : s \in {t \in shorter : Len(t) = n - 1}, x \in S}

\* ------------------------------------------------------------------ texts
Txt(b) == [prefix |-> "", body |-> b]
ErrText(msg) == [prefix |-> "Error: ", body |-> msg]
StartsWithError(t) == t.prefix = "Error: "

Query == "list files"

\* bodies that json.loads accepts, with the body json.dumps gives back
JsonBodies == {"null", "{\"n\":1}", "{\"n\": 1}", "[]"}
JsonCanon(b) == IF b = "{\"n\":1}" THEN "{\"n\": 1}" ELSE b
IsJsonText(t) == t.prefix = "" /\ t.body \in JsonBodies

\* len(text) of the texts the model uses
TextLen(t) ==
    (IF t.prefix = "" THEN 0 ELSE 7)
    + (CASE t.body = "" -> 0
         [] t.body = "null" -> 4
         [] t.body = "[]" -> 2
         [] t.body = "{\"n\":1}" -> 20000
         [] t.body = "{\"n\": 1}" -> 20001
         [] t.body = "Hi!" -> 3
         [] t.body = "{\"rows\": [1, 2]}" -> 36000
         [] OTHER -> 60)

estimate_tokens(t) == TextLen(t) \div 4

\* ------------------------------------------------------------- scratchpad
\* json.loads of a result text; a text that is not JSON is kept as it is
JsonValue(t) == [json |-> JsonCanon(t.body)]
IsStr(v) == "prefix" \in DOMAIN v

\* Scratchpad._parse_result_safely: an Optional value (json null is None)
ParseResultSafely(result) ==
    IF IsJsonText(result)
    THEN IF result.body = "null" THEN {} ELSE {JsonValue(result)}
    ELSE {result}

\* Scratchpad._stringify_result, applied to an Optional value
StringifyResult(r) ==
    IF r = {} THEN Txt("null")
    ELSE IF IsStr(The(r)) THEN The(r) ELSE Txt(The(r).json)

\* truth value of an Optional result (`and e.result`)
Truthy(r) ==
    /\ r # {}
    /\ IF IsStr(The(r)) THEN TextLen(The(r)) > 0 ELSE The(r).json \notin {"[]"}

ScratchpadEntry(type, content, tool_name, args, result, llm_summary) ==
    [type |-> type, content |-> content, tool_name |-> tool_name,
     args |-> args, result |-> result, llm_summary |-> llm_summary]

InitEntry(query) == ScratchpadEntry("init", {query}, {}, {}, {}, {})
ThinkingEntry(thought) == ScratchpadEntry("thinking", {thought}, {}, {}, {}, {})
ToolResultEntry(tool_name, args, result, llm_summary) ==
    ScratchpadEntry("tool_result", {}, {tool_name}, {args},
                    ParseResultSafely(result), {llm_summary})

\* the JSON object _append writes for an entry: None fields are left out
Field(key, opt) == IF opt = {} THEN EmptyDict ELSE (key :> The(opt))
JournalLine(entry) ==
    ("type" :> entry.type)
    @@ Field("content", entry.content)
    @@ Field("toolName", entry.tool_name)
    @@ Field("args", entry.args)
    @@ Field("result", entry.result)
    @@ Field("llmSummary", entry.llm_summary)

\* Scratchpad._append: open(filepath, "a") and write one line
AppendTruncating(f, entry) == <<JournalLine(entry)>>
AppendLine(f, entry) == Append(f, JournalLine(entry))

\* Scratchpad._read_entries
ParseLine(data) ==
    [type |-> GetOr(data, "type", ""),
     content |-> Get(data, "content"),
     tool_name |-> Get(data, "toolName"),
     args |-> Get(data, "args"),
     result |-> Get(data, "result"),
     llm_summary |-> Get(data, "llmSummary")]
ReadEntries(f) == [i \in 1..Len(f) |-> ParseLine(f[i])]

IsToolResult(e) == e.type = "tool_result"

\* Scratchpad.has_tool_results
HasToolResultsAnyEntry(f) == f # << >>
HasToolResults(f) == \E i \in 1..Len(f) : IsToolResult(ReadEntries(f)[i])

\* Scratchpad.has_executed_skill
HasExecutedSkillOnSuccess(f, skill_name) ==
    \E i \in 1..Len(f) :
        LET e == ReadEntries(f)[i]
        IN /\ IsToolResult(e)
           /\ e.tool_name = {"skill"}
           /\ e.args # {} /\ DOMAIN The(e.args) # {}
           /\ Get(The(e.args), "skill") = {skill_name}
           /\ ~StartsWithError(StringifyResult(e.result))
HasExecutedSkill(f, skill_name) ==
    \E i \in 1..Len(f) :
        LET e == ReadEntries(f)[i]
        IN /\ IsToolResult(e)
           /\ e.tool_name = {"skill"}
           /\ e.args # {} /\ DOMAIN The(e.args) # {}
           /\ Get(The(e.args), "skill") = {skill_name}

\* Scratchpad.get_tool_call_records
ToolCallRecord(e) ==
    [tool |-> The(e.tool_name),
     args |-> IF e.args = {} THEN EmptyDict ELSE The(e.args),
     result |-> StringifyResult(e.result)]
RECURSIVE RecordsOf(_)
RecordsOf(es) ==
    IF es = << >> THEN << >>
    ELSE IF IsToolResult(Head(es)) /\ Head(es).tool_name # {}
         THEN <<ToolCallRecord(Head(es))>> \o RecordsOf(Tail(es))
         ELSE RecordsOf(Tail(es))
GetToolCallRecords(f) == The({RecordsOf(entries) : entries \in {ReadEntries(f)}})

\* Scratchpad.get_full_contexts_with_summaries; index is the 0-based
\* position of the entry among all entries of the journal
ContextOf(e, i) ==
    [tool_name |-> The(e.tool_name),
     args |-> IF e.args = {} THEN EmptyDict ELSE The(e.args),
     result |-> StringifyResult(e.result),
     llm_summary |-> IF e.llm_summary = {} THEN Txt("") ELSE The(e.llm_summary),
     index |-> i - 1]
RECURSIVE ContextsFrom(_, _)
ContextsFrom(es, i) ==
    IF i > Len(es) THEN << >>
    ELSE IF IsToolResult(es[i]) /\ es[i].tool_name # {} /\ Truthy(es[i].result)
         THEN <<ContextOf(es[i], i)>> \o ContextsFrom(es, i + 1)
         ELSE ContextsFrom(es, i + 1)
\* (entries = self._read_entries(), read once)
GetFullContextsWithSummaries(f) ==
    The({ContextsFrom(entries, 1) : entries \in {ReadEntries(f)}})

\* ---------------------------------------------------------- tool limits
\* A query string is the sequence of its words; "" is the empty sequence.
\* Scratchpad._tokenize: lowercased words longer than one character
ShortWords == {"a", "x"}
Lower(w) == CASE w = "AI" -> "ai" [] w = "News" -> "news" [] OTHER -> w
Tokenize(query) == {Lower(w) : w \in {v \in Range(query) : v \notin ShortWords}}

\* Scratchpad._calculate_similarity >= similarity_threshold (0.7), in tenths
similarity_threshold_tenths == 7
SimilarSets(set1, set2) ==
    /\ set1 # {} /\ set2 # {}
    /\ 10 * Cardinality(set1 \cap set2)
         >= similarity_threshold_tenths * Cardinality(set1 \cup set2)

RECURSIVE FindSimilarQueryByWords(_, _)
FindSimilarQueryByWords(new_query, previous_queries) ==
    IF previous_queries = << >> THEN {}
    ELSE LET prev_query == Head(previous_queries)
         IN IF SimilarSets(Tokenize(new_query), Tokenize(prev_query))
            THEN {prev_query}
            ELSE FindSimilarQueryByWords(new_query, Tail(previous_queries))

\* Scratchpad._find_similar_query: the first previous query that matches
RECURSIVE FindSimilarQuery(_, _)
FindSimilarQuery(new_query, previous_queries) ==
    IF previous_queries = << >> THEN {}
    ELSE LET prev_query == Head(previous_queries)
         IN IF new_query = prev_query
               \/ SimilarSets(Tokenize(new_query), Tokenize(prev_query))
            THEN {prev_query}
            ELSE FindSimilarQuery(new_query, Tail(previous_queries))

ToolLimitCheck(allowed, warning) == [allowed |-> allowed, warning |-> warning]

\* Scratchpad.can_call_tool; query is Optional, `if query` also skips ""
CanCallToolBlocking(counts, queries, tool_name, query) ==
    LET current_count == GetOr(counts, tool_name, 0)
        max_calls == max_calls_per_tool
        similar_query ==
            IF query # {} /\ The(query) # << >>
            THEN FindSimilarQuery(The(query), GetOr(queries, tool_name, << >>))
            ELSE {}
    IN IF current_count >= max_calls
       THEN ToolLimitCheck(FALSE, {[kind |-> "over_limit", count |-> current_count]})
       ELSE IF similar_query # {}
       THEN ToolLimitCheck(FALSE, {[kind |-> "similar",
                                   remaining |-> max_calls - current_count]})
       ELSE IF current_count = max_calls - 1
       THEN ToolLimitCheck(TRUE, {[kind |-> "approaching",
                                   count |-> current_count + 1]})
       ELSE ToolLimitCheck(TRUE, {})

CanCallToolSimilarFirst(counts, queries, tool_name, query) ==
    LET current_count == GetOr(counts, tool_name, 0)
        max_calls == max_calls_per_tool
        similar_query ==
            IF query # {} /\ The(query) # << >>
            THEN FindSimilarQuery(The(query), GetOr(queries, tool_name, << >>))
            ELSE {}
    IN IF similar_query # {}
       THEN ToolLimitCheck(TRUE, {[kind |-> "similar",
                                   remaining |-> max_calls - current_count]})
       ELSE IF current_count >= max_calls
       THEN ToolLimitCheck(TRUE, {[kind |-> "over_limit", count |-> current_count]})
       ELSE IF current_count = max_calls - 1
       THEN ToolLimitCheck(TRUE, {[kind |-> "approaching",
                                   count |-> current_count + 1]})
       ELSE ToolLimitCheck(TRUE, {})

CanCallTool(counts, queries, tool_name, query) ==
    LET current_count == GetOr(counts, tool_name, 0)
        max_calls == max_calls_per_tool
        similar_query ==
            IF query # {} /\ The(query) # << >>
            THEN FindSimilarQuery(The(query), GetOr(queries, tool_name, << >>))
            ELSE {}
    IN IF current_count >= max_calls
       THEN ToolLimitCheck(TRUE, {[kind |-> "over_limit", count |-> current_count]})
       ELSE IF similar_query # {}
       THEN ToolLimitCheck(TRUE, {[kind |-> "similar",
                                   remaining |-> max_calls - current_count]})
       ELSE IF current_count = max_calls - 1
       THEN ToolLimitCheck(TRUE, {[kind |-> "approaching",
                                   count |-> current_count + 1]})
       ELSE ToolLimitCheck(TRUE, {})

\* Scratchpad.record_tool_call: the counts and the queries after the call
RecordCount(counts, tool_name) ==
    Put(counts, tool_name, GetOr(counts, tool_name, 0) + 1)
RecordQuery(queries, tool_name, query) ==
    IF query # {} /\ The(query) # << >>
    THEN Put(queries, tool_name, Append(GetOr(queries, tool_name, << >>), The(query)))
    ELSE queries

\* Agent._extract_query_from_args: the first of the keys holding a string
query_keys == <<"query", "search", "question", "q", "text", "input">>
RECURSIVE FirstQuery(_, _)
FirstQuery(args, keys) ==
    IF keys = << >> THEN {}
    ELSE IF Head(keys) \in DOMAIN args THEN {args[Head(keys)]}
         ELSE FirstQuery(args, Tail(keys))
ExtractQueryFromArgs(args) == FirstQuery(args, query_keys)

\* ------------------------------------------------------------------ events
ThinkingEvent(message) == [type |-> "thinking", message |-> message]
ToolStartEvent(tool, args) == [type |-> "tool_start", tool |-> tool, args |-> args]
ToolEndEvent(tool, args, result) ==
    [type |-> "tool_end", tool |-> tool, args |-> args, result |-> result]
ToolErrorEvent(tool, err) == [type |-> "tool_error", tool |-> tool, error |-> err]
ToolLimitEvent(tool, warning, blocked) ==
    [type |-> "tool_limit", tool |-> tool, warning |-> warning, blocked |-> blocked]
AnswerStartEvent == [type |-> "answer_start"]
DoneEventZeroIterations(answer, tool_calls, iterations) ==
    [type |-> "done", answer |-> answer, tool_calls |-> tool_calls, iterations |-> 0]
DoneEvent(answer, tool_calls, iterations) ==
    [type |-> "done", answer |-> answer, tool_calls |-> tool_calls,
     iterations |-> iterations]

\* ------------------------------------------- session keys (utils/session.py)
\* A string is the sequence of its tokens: a word, or one of the characters
\* ":" and " ", or "-".  No token is a prefix of another, so two strings are
\* equal exactly when their token sequences are.
WordTokens == {"agent", "main", "s1", "Main", "S1"}
KeyTokens == {"agent", "Main", "S1", ":", " "}
DEFAULT_AGENT_ID == <<"main">>
DEFAULT_MAIN_KEY == <<"main">>

\* str.lower()
LowerToken(w) == CASE w = "Main" -> "main" [] w = "S1" -> "s1" [] OTHER -> w
LowerStr(str) == [i \in DOMAIN str |-> LowerToken(str[i])]

RECURSIVE LStrip(_, _)
LStrip(str, chars) ==
    IF str # << >> /\ Head(str) \in chars THEN LStrip(Tail(str), chars) ELSE str
RECURSIVE RStrip(_, _)
RStrip(str, chars) ==
    IF str # << >> /\ str[Len(str)] \in chars
    THEN RStrip(SubSeq(str, 1, Len(str) - 1), chars)
    ELSE str
\* str.strip(), and `(value or "").strip()` for an Optional string
Strip(str) == RStrip(LStrip(str, {" "}), {" "})
OrEmpty(opt) == IF opt = {} THEN << >> ELSE The(opt)

\* VALID_ID_RE: ^[a-z0-9][a-z0-9_-]{0,63}$, ignoring case
ValidId(str) ==
    /\ str # << >>
    /\ Head(str) \in WordTokens
    /\ \A i \in DOMAIN str : str[i] \in WordTokens \cup {"-"}

\* INVALID_CHARS_RE.sub("-", ...): each run of other characters becomes "-"
RECURSIVE SubInvalid(_, _)
SubInvalid(str, in_run) ==
    IF str = << >> THEN << >>
    ELSE IF Head(str) \in WordTokens \cup {"-"}
         THEN <<Head(str)>> \o SubInvalid(Tail(str), FALSE)
         ELSE (IF in_run THEN << >> ELSE <<"-">>) \o SubInvalid(Tail(str), TRUE)

\* normalize_agent_id (the cut to 64 characters is out of reach of the inputs)
normalize_agent_id(value) ==
    LET trimmed == Strip(OrEmpty(value))
    IN IF trimmed = << >> THEN DEFAULT_AGENT_ID
       ELSE IF ValidId(trimmed) THEN LowerStr(trimmed)
       ELSE LET normalized ==
                    RStrip(LStrip(SubInvalid(LowerStr(trimmed), FALSE), {"-"}), {"-"})
            IN IF normalized = << >> THEN DEFAULT_AGENT_ID ELSE normalized

normalize_main_key(value) ==
    LET trimmed == Strip(OrEmpty(value))
    IN IF trimmed # << >> THEN LowerStr(trimmed) ELSE DEFAULT_MAIN_KEY

\* f"agent:{agent_id}:{main_key}"
build_agent_main_session_key(agent_id, main_key) ==
    <<"agent", ":">> \o normalize_agent_id(agent_id) \o <<":">>
        \o normalize_main_key(main_key)

\* raw.split(":"), as the sequence of the parts
RECURSIVE Split(_, _)
Split(str, part) ==
    IF str = << >> THEN <<part>>
    ELSE IF Head(str) = ":" THEN <<part>> \o Split(Tail(str), << >>)
         ELSE Split(Tail(str), Append(part, Head(str)))
RECURSIVE NonEmptyParts(_)
NonEmptyParts(parts) ==
    IF parts = << >> THEN << >>
    ELSE IF Head(parts) = << >> THEN NonEmptyParts(Tail(parts))
         ELSE <<Head(parts)>> \o NonEmptyParts(Tail(parts))
RECURSIVE Join(_)
Join(parts) ==
    IF parts = << >> THEN << >>
    ELSE IF Len(parts) = 1 THEN Head(parts)
         ELSE Head(parts) \o <<":">> \o Join(Tail(parts))

\* parse_agent_session_key: an Optional ParsedSessionKey
parse_agent_session_key(session_key_arg) ==
    LET raw == Strip(OrEmpty(session_key_arg))
        parts == NonEmptyParts(Split(raw, << >>))
    IN IF raw = << >> THEN {}
       ELSE IF Len(parts) < 3 \/ LowerStr(parts[1]) # <<"agent">> THEN {}
       ELSE LET rest == Strip(Join(SubSeq(parts, 3, Len(parts))))
            IN IF rest = << >> THEN {}
               ELSE {[agent_id |-> normalize_agent_id({parts[2]}), rest |-> rest]}

to_agent_store_session_key_prefixing(agent_id, request_key, main_key) ==
    <<"agent", ":">> \o normalize_agent_id(agent_id) \o <<":">>
        \o LowerStr(Strip(OrEmpty(request_key)))
to_agent_store_session_key(agent_id, request_key, main_key) ==
    LET raw == Strip(OrEmpty(request_key))
        lowered == LowerStr(raw)
    IN IF raw = << >> \/ LowerStr(Strip(raw)) = DEFAULT_MAIN_KEY
       THEN build_agent_main_session_key(agent_id, main_key)
       ELSE IF Len(lowered) >= 2 /\ SubSeq(lowered, 1, 2) = <<"agent", ":">>
       THEN lowered
       ELSE <<"agent", ":">> \o normalize_agent_id(agent_id) \o <<":">> \o lowered

resolve_session_key(agent_id, session_id, session_key_arg) ==
    LET agent == normalize_agent_id(IF agent_id = {} \/ agent_id = {<< >>}
                                    THEN {DEFAULT_AGENT_ID} ELSE agent_id)
        explicit == Strip(OrEmpty(session_key_arg))
        id == Strip(OrEmpty(session_id))
    IN IF explicit # << >> THEN to_agent_store_session_key({agent}, {explicit}, {})
       ELSE IF id # << >> THEN to_agent_store_session_key({agent}, {id}, {})
       ELSE build_agent_main_session_key({agent}, {DEFAULT_MAIN_KEY})

\* ------------------------------------------------------------ environment
\* what the model backend may ask for, and what the tools give back
SkillCall == [name |-> "skill", args |-> [skill |-> "dcf"]]
SearchCall == [name |-> "web_search", args |-> [query |-> <<"AI", "news">>]]
ToolCallChoices == {SkillCall, SearchCall}
ToolConfigs == {{}, {"web_search"}, {"skill", "web_search"}}
\* `if session_key: session_key = resolve_session_key(session_id=session_key)`
RunKey(given) ==
    IF given = {} \/ given = {<< >>} THEN {}
    ELSE {resolve_session_key({}, given, {})}
\* session_manager.append(session_key, message): the key and the message
SessionAppendTwice(log, key, message) ==
    Append(Append(log, [key |-> key, role |-> message.role, content |-> message.content]),
           [key |-> key, role |-> message.role, content |-> message.content])
SessionAppend(log, key, message) ==
    Append(log, [key |-> key, role |-> message.role, content |-> message.content])
\* the session_key argument of run: absent, or an identifier the caller chose
SessionKeys == {{}, {<<"S1">>}}
ResponseTexts == {Txt(""), Txt("Hi!")}
FinalAnswers == {Txt(""), Txt("Here is what I found in the data ...")}
ToolOutput(name, args) ==
    IF name = "skill" THEN Txt("## Skill: dcf ...") ELSE Txt("{\"n\":1}")
SummaryText == Txt("one-sentence summary")
NoToolsAnswer == Txt("No tools available. Please check your configuration.")
MaxIterationsAnswer == Txt("Reached maximum iterations.")

NoResponse == [text |-> Txt(""), tool_calls |-> << >>]
NoCall == [tool_name |-> "", tool_args |-> EmptyDict, tool_query |-> {},
           result |-> Txt("")]

\* f"{description} [FAILED]: {error_message}"
ErrorSummary(tool_name, args, msg) ==
    [description |-> <<tool_name, args>>, failed |-> msg]

\* ContextPointer appended by ToolContextManager.save_context
ContextPointer(tool_name, args, query_id) ==
    [tool_name |-> tool_name, args |-> args, query_id |-> query_id]
HashQuery(query) == <<"md5", query>>

\* no session manager call in flight, nothing resolved, nothing saved
StoreIdle ==
    /\ cache = EmptyDict
    /\ disk = EmptyDict
    /\ tasks = EmptyDict
    /\ callers = {}
    /\ returned = << >>
    /\ known_history = {}
KeyIdle ==
    /\ key_args = EmptyDict
    /\ key_results = << >>
ContextIdle ==
    /\ context_files = EmptyDict
    /\ context_pointer = << >>
    /\ context_saves = << >>
    /\ context_loaded = {}
MemoryIdle ==
    /\ memory_entries = << >>
    /\ query_terms = << >>
    /\ clock = 0
    /\ entry_pos = 0
    /\ scored = << >>
    /\ search_result = {}
HistoryIdle ==
    /\ history_messages = << >>
    /\ relevantMessagesByQuery = EmptyDict
    /\ selection_basis = EmptyDict
    /\ history_tasks = EmptyDict
SelectionIdle ==
    /\ valid_contexts = << >>
    /\ selection_response = {}
    /\ built_context = {}
JournalIdle ==
    /\ journal_clock = 0
    /\ journal_files = << >>
    /\ scratchpads = << >>
    /\ own_entries = << >>
ManagerIdle ==
    /\ manager_entries = << >>
    /\ manager_loaded = FALSE
    /\ index_json = {}
    /\ add_tasks = << >>
BrowserIdle ==
    /\ browser_sessions = << >>
    /\ browser_open = FALSE
    /\ browser_lock = {}
    /\ browser_tasks = << >>

\* the locals of run, the scratchpad and the stores before the first step
RunStart ==
    /\ pc = "start"
    /\ iteration = 0
    /\ response = NoResponse
    /\ idx = 0
    /\ cur = NoCall
    /\ capped = FALSE
    /\ full_context = {}
    /\ events = << >>
    /\ file = << >>
    /\ tool_call_counts = EmptyDict
    /\ tool_queries = EmptyDict
    /\ limit_check = {}
    /\ session = << >>
    /\ memory = << >>
    /\ pointers = << >>
    /\ error = {}
    /\ appended = << >>
    /\ dispatched = << >>
    /\ requested = << >>
    /\ reasoning_calls = 0
    /\ final_calls = 0
    /\ faults = 0

Init ==
    /\ StoreIdle /\ KeyIdle /\ ContextIdle /\ MemoryIdle /\ HistoryIdle
    /\ SelectionIdle /\ JournalIdle /\ ManagerIdle /\ BrowserIdle
    /\ tools \in ToolConfigs
    /\ max_iterations \in (0 - 1)..MaxIterCfg
    /\ session_key \in SessionKeys
    /\ RunStart

\* no run of the driver under way
DriverIdle ==
    /\ tools = {}
    /\ max_iterations = 0
    /\ session_key = {}
    /\ RunStart

padVars == <<file, appended, tool_call_counts, tool_queries, limit_check>>
cfgVars == <<tools, max_iterations, session_key>>
histVars == <<dispatched, requested, reasoning_calls, final_calls>>

RaiseAndAnswer(what) ==
    /\ error' = {what}
    /\ pc' = "answer"
    /\ faults' = faults + 1
\* the exception leaves the generator: run raises
Raise(what) ==
    /\ error' = {what}
    /\ pc' = "raised"
    /\ faults' = faults + 1

\* Message(role, content) handed to SessionManager.append
Message(role, content) == [role |-> role, content |-> content]

\* `return` after `yield DoneEvent(...)`: the generator is exhausted
AfterDoneFallsThrough == "reason"
AfterDone == "done"

\* ------------------------------------------------- Agent.run: preflight
PreflightNoTools ==
    /\ pc = "start"
    /\ tools = {}
    /\ session_key' = RunKey(session_key)
    /\ events' = Append(events, DoneEvent(NoToolsAnswer, << >>, 0))
    /\ pc' = AfterDone
    /\ UNCHANGED <<libVars, tools, max_iterations, iteration, response, idx, cur,
                   capped, full_context,
                   padVars, session, memory, pointers, error, histVars, faults>>

\* Scratchpad(query), _load_session, _search_memory, _save_user_message
Preflight ==
    /\ pc = "start"
    /\ tools # {}
    /\ file' = AppendLine(file, InitEntry(Query))
    /\ appended' = Append(appended, InitEntry(Query))
    /\ \E key \in {RunKey(session_key)} :
          /\ session_key' = key
          /\ session' = IF key # {}
                        THEN SessionAppend(session, The(key), Message("user", Txt(Query)))
                        ELSE session
    /\ pc' = "reason"
    /\ UNCHANGED <<libVars, tools, max_iterations, iteration, response, idx, cur,
                   capped, full_context,
                   events, tool_call_counts, tool_queries, limit_check, memory,
                   pointers, error, histVars, faults>>

\* the session load or the session append raises
PreflightRaises ==
    /\ pc = "start"
    /\ tools # {}
    /\ session_key # {}
    /\ session_key' = RunKey(session_key)
    /\ faults < MaxFaults
    /\ file' = AppendLine(file, InitEntry(Query))
    /\ appended' = Append(appended, InitEntry(Query))
    /\ \E what \in {"session load failed", "session append failed"} : Raise(what)
    /\ UNCHANGED <<libVars, tools, max_iterations, iteration, response, idx, cur,
                   capped, full_context,
                   events, tool_call_counts, tool_queries, limit_check, session,
                   memory, pointers, histVars>>

\* ------------------------------------------------ _build_full_context
RECURSIVE SumTokens(_)
SumTokens(cs) ==
    IF cs = << >> THEN 0 ELSE estimate_tokens(Head(cs).result) + SumTokens(Tail(cs))

KeepErrors(cs) == cs
\* valid = [c for c in contexts if not c.result.startswith("Error:")]
FilterErrors(cs) == SelectSeq(cs, LAMBDA c : ~StartsWithError(c.result))

\* the loop of _build_llm_selected_context: <<full_results, summary_results>>
RECURSIVE SplitSelectedAnyCost(_, _, _)
SplitSelectedAnyCost(cs, selected, used_tokens) ==
    IF cs = << >> THEN <<<< >>, << >>>>
    ELSE LET ctx == Head(cs)
             take == ctx.index \in selected
             rest == SplitSelectedAnyCost(Tail(cs), selected, used_tokens)
         IN IF take THEN <<<<ctx>> \o rest[1], rest[2]>>
            ELSE <<rest[1], <<ctx>> \o rest[2]>>

RECURSIVE SplitSelected(_, _, _)
SplitSelected(cs, selected, used_tokens) ==
    IF cs = << >> THEN <<<< >>, << >>>>
    ELSE LET ctx == Head(cs)
             tokens == estimate_tokens(ctx.result)
             take == ctx.index \in selected /\ used_tokens + tokens <= TOKEN_BUDGET
             rest == SplitSelected(Tail(cs), selected,
                                   IF take THEN used_tokens + tokens ELSE used_tokens)
         IN IF take THEN <<<<ctx>> \o rest[1], rest[2]>>
            ELSE <<rest[1], <<ctx>> \o rest[2]>>

ContextText(kind, full, summary) == [kind |-> kind, full |-> full, summary |-> summary]

\* the contexts the final-answer prompt may be built from; selection is the
\* fast model's answer when the valid results are over budget: a set of
\* indices, or NoSelection when the call raises or the answer is not JSON
NoSelection == [ok |-> FALSE, indices |-> {}]
Selected(indices) == [ok |-> TRUE, indices |-> indices]
ContextFrom(contexts, valid, selection) ==
    IF contexts = << >> THEN ContextText("No data was gathered.", << >>, << >>)
    ELSE IF valid = << >>
    THEN ContextText("No data was successfully gathered.", << >>, << >>)
    ELSE IF SumTokens(valid) <= TOKEN_BUDGET
    THEN ContextText("full", valid, << >>)
    ELSE IF ~selection.ok
    THEN ContextText("summaries", << >>, valid)
    ELSE LET split == SplitSelected(valid, selection.indices, 0)
         IN ContextText("selected", split[1], split[2])
\* contexts and valid are computed once, as the code's locals are
BuildFullContext(f, selection) ==
    The({ContextFrom(contexts, valid, selection) :
            contexts \in {GetFullContextsWithSummaries(f)},
            valid \in {FilterErrors(GetFullContextsWithSummaries(f))}})

OverBudget(f) ==
    \E valid \in {FilterErrors(GetFullContextsWithSummaries(f))} :
        valid # << >> /\ SumTokens(valid) > TOKEN_BUDGET
Selections(f) ==
    IF OverBudget(f)
    THEN {NoSelection} \cup
         {Selected(S) : S \in
            SUBSET {c.index : c \in Range(FilterErrors(GetFullContextsWithSummaries(f)))}}
    ELSE {NoSelection}

\* `yield AnswerStartEvent()`
StartAnswerTwice(evts) == evts \o <<AnswerStartEvent, AnswerStartEvent>>
StartAnswer(evts) == Append(evts, AnswerStartEvent)

\* _build_full_context, build_final_answer_prompt, then AnswerStart
BuildContextAndStartAnswer ==
    /\ \E selection \in Selections(file) :
           full_context' = {BuildFullContext(file, selection)}
    /\ events' = StartAnswer(events)
    /\ pc' = "answer"

\* ------------------------------------------- Agent.run: the reasoning step
\* `while iteration < self.max_iterations`
LoopContinuesOffByOne == iteration <= max_iterations
LoopContinues == iteration < max_iterations

\* the tool_calls lists the model backend may still answer with
CallLists == SeqsUpTo(ToolCallChoices, MaxToolCalls - Len(requested)) \ {<< >>}

\* _call_model(current_prompt, use_tools=True) raises
ReasonRaises ==
    /\ pc = "reason"
    /\ LoopContinues
    /\ faults < MaxFaults
    /\ iteration' = iteration + 1
    /\ reasoning_calls' = reasoning_calls + 1
    /\ Raise("model call failed")
    /\ UNCHANGED <<libVars, cfgVars, response, idx, cur, capped, full_context, events,
                   padVars, session, memory, pointers, dispatched, requested,
                   final_calls>>

\* the response carries tool calls; its text, if any, is journalled as thinking
ReasonToolCalls ==
    /\ pc = "reason"
    /\ LoopContinues
    /\ \E text \in ResponseTexts, calls \in CallLists :
        /\ response' = [text |-> text, tool_calls |-> calls]
        /\ requested' = requested \o calls
        /\ IF TextLen(text) > 0
           THEN /\ file' = AppendLine(file, ThinkingEntry(text))
                /\ appended' = Append(appended, ThinkingEntry(text))
                /\ events' = Append(events, ThinkingEvent(text))
           ELSE UNCHANGED <<file, appended, events>>
    /\ iteration' = iteration + 1
    /\ reasoning_calls' = reasoning_calls + 1
    /\ idx' = 1
    /\ pc' = "dispatch"
    /\ UNCHANGED <<libVars, cfgVars, cur, capped, full_context, tool_call_counts,
                   tool_queries, limit_check, session, memory, pointers, error,
                   dispatched, final_calls, faults>>

\* the response carries no tool calls, nothing was gathered and the text is
\* not empty: the direct answer
ReasonDirectAnswer ==
    /\ pc = "reason"
    /\ LoopContinues
    /\ ~HasToolResults(file)
    /\ \E text \in ResponseTexts :
        /\ TextLen(text) > 0
        /\ response' = [text |-> text, tool_calls |-> << >>]
    /\ events' = StartAnswer(events)
    /\ pc' = "direct"
    /\ iteration' = iteration + 1
    /\ reasoning_calls' = reasoning_calls + 1
    /\ UNCHANGED <<libVars, cfgVars, idx, cur, capped, full_context, padVars, session,
                   memory, pointers, error, dispatched, requested, final_calls,
                   faults>>

\* the response carries no tool calls otherwise: the final answer with context
ReasonNoToolCalls ==
    /\ pc = "reason"
    /\ LoopContinues
    /\ \E text \in ResponseTexts :
        /\ ~(~HasToolResults(file) /\ TextLen(text) > 0)
        /\ response' = [text |-> text, tool_calls |-> << >>]
    /\ BuildContextAndStartAnswer
    /\ iteration' = iteration + 1
    /\ reasoning_calls' = reasoning_calls + 1
    /\ UNCHANGED <<libVars, cfgVars, idx, cur, capped, padVars, session, memory, pointers,
                   error, dispatched, requested, final_calls, faults>>

\* the loop condition fails: "Max iterations reached", final answer
CapReached ==
    /\ pc = "reason"
    /\ ~LoopContinues
    /\ capped' = TRUE
    /\ BuildContextAndStartAnswer
    /\ UNCHANGED <<libVars, cfgVars, iteration, response, idx, cur, padVars, session,
                   memory, pointers, error, histVars, faults>>

\* ------------------------------------------------ _execute_tool_calls
\* `for tool_call in response.tool_calls`: the call at position idx
CurrentCallReversed == response.tool_calls[Len(response.tool_calls) + 1 - idx]
CurrentCall == response.tool_calls[idx]

AfterCallStaysInLoop == "dispatch"
\* after the call at idx: the next call, or build_iteration_prompt and the
\* loop head when it was the last one
AfterCall == IF idx + 1 > Len(response.tool_calls) THEN "reason" ELSE "dispatch"

\* tool_args.get("skill", "")
SkillNameOf(call) == GetOr(call.args, "skill", "")
IsDuplicateSkill(call) ==
    call.name = "skill" /\ HasExecutedSkill(file, SkillNameOf(call))

\* "Skipping duplicate skill call": continue
SkipDuplicateSkill ==
    /\ pc = "dispatch"
    /\ idx <= Len(response.tool_calls)
    /\ IsDuplicateSkill(CurrentCall)
    /\ idx' = idx + 1
    /\ pc' = AfterCall
    /\ UNCHANGED <<libVars, cfgVars, iteration, response, cur, capped, full_context,
                   events, padVars, session, memory, pointers, error, histVars,
                   faults>>

\* ------------------------------------------------ _execute_single_tool
\* the events yielded before the tool is invoked
EventsBeforeInvoke(check, tool_name, tool_args) ==
    (IF check.warning # {}
     THEN <<ToolLimitEvent(tool_name, The(check.warning), FALSE)>>
     ELSE << >>)
    \o <<ToolStartEvent(tool_name, tool_args)>>

\* can_call_tool, the optional ToolLimit event and the ToolStart event
StartTool ==
    /\ pc = "dispatch"
    /\ idx <= Len(response.tool_calls)
    /\ ~IsDuplicateSkill(CurrentCall)
    /\ LET tool_name == CurrentCall.name
           tool_args == CurrentCall.args
           tool_query == ExtractQueryFromArgs(tool_args)
           check == CanCallTool(tool_call_counts, tool_queries, tool_name, tool_query)
       IN /\ cur' = [tool_name |-> tool_name, tool_args |-> tool_args,
                     tool_query |-> tool_query, result |-> Txt("")]
          /\ limit_check' = {check}
          /\ events' = events \o EventsBeforeInvoke(check, tool_name, tool_args)
          /\ dispatched' = Append(dispatched, CurrentCall)
    /\ pc' = "invoke"
    /\ UNCHANGED <<libVars, cfgVars, iteration, response, idx, capped, full_context, file,
                   appended, tool_call_counts, tool_queries, session, memory,
                   pointers, error, requested, reasoning_calls, final_calls,
                   faults>>

\* the `except Exception` branch: ToolError, record_tool_call, add_tool_result
ExceptBranch(msg) ==
    LET entry == ToolResultEntry(cur.tool_name, cur.tool_args, ErrText(msg),
                                 ErrorSummary(cur.tool_name, cur.tool_args, msg))
    IN /\ events' = Append(events, ToolErrorEvent(cur.tool_name, msg))
       /\ tool_call_counts' = RecordCount(tool_call_counts, cur.tool_name)
       /\ tool_queries' = RecordQuery(tool_queries, cur.tool_name, cur.tool_query)
       /\ file' = AppendLine(file, entry)
       /\ appended' = Append(appended, entry)
       /\ idx' = idx + 1
       /\ pc' = AfterCall

\* self.tool_map.get(tool_name) is None: ValueError
ToolNotFound ==
    /\ pc = "invoke"
    /\ cur.tool_name \notin tools
    /\ ExceptBranch("Tool not found")
    /\ UNCHANGED <<libVars, cfgVars, iteration, response, cur, capped, full_context,
                   limit_check, session, memory, pointers, error, histVars, faults>>

\* tool.ainvoke raises
ToolRaises ==
    /\ pc = "invoke"
    /\ cur.tool_name \in tools
    /\ faults < MaxFaults
    /\ faults' = faults + 1
    /\ ExceptBranch("permission denied")
    /\ UNCHANGED <<libVars, cfgVars, iteration, response, cur, capped, full_context,
                   limit_check, session, memory, pointers, error, histVars>>

\* tool.ainvoke returns: ToolEnd, then context_manager.save_context raises
ToolReturnsSaveRaises ==
    /\ pc = "invoke"
    /\ cur.tool_name \in tools
    /\ faults < MaxFaults
    /\ faults' = faults + 1
    /\ LET result == ToolOutput(cur.tool_name, cur.tool_args)
           msg == "context save failed"
           entry == ToolResultEntry(cur.tool_name, cur.tool_args, ErrText(msg),
                                    ErrorSummary(cur.tool_name, cur.tool_args, msg))
       IN /\ cur' = [cur EXCEPT !.result = result]
          /\ events' = events
                 \o <<ToolEndEvent(cur.tool_name, cur.tool_args, result),
                      ToolErrorEvent(cur.tool_name, msg)>>
          /\ file' = AppendLine(file, entry)
          /\ appended' = Append(appended, entry)
    /\ tool_call_counts' = RecordCount(tool_call_counts, cur.tool_name)
    /\ tool_queries' = RecordQuery(tool_queries, cur.tool_name, cur.tool_query)
    /\ idx' = idx + 1
    /\ pc' = AfterCall
    /\ UNCHANGED <<libVars, cfgVars, iteration, response, capped, full_context,
                   limit_check, session, memory, pointers, error, histVars>>

\* tool.ainvoke returns: ToolEnd, save_context, record_tool_call, and the
\* summary call is awaited
ToolReturns ==
    /\ pc = "invoke"
    /\ cur.tool_name \in tools
    /\ LET result == ToolOutput(cur.tool_name, cur.tool_args)
       IN /\ cur' = [cur EXCEPT !.result = result]
          /\ events' = Append(events,
                 ToolEndEvent(cur.tool_name, cur.tool_args, result))
    /\ pointers' = Append(pointers,
           ContextPointer(cur.tool_name, cur.tool_args, HashQuery(Query)))
    /\ tool_call_counts' = RecordCount(tool_call_counts, cur.tool_name)
    /\ tool_queries' = RecordQuery(tool_queries, cur.tool_name, cur.tool_query)
    /\ pc' = "summarise"
    /\ UNCHANGED <<libVars, cfgVars, iteration, response, idx, capped, full_context,
                   file, appended, limit_check, session, memory, error,
                   histVars, faults>>

\* _summarize_tool_result raises: the same `except Exception` branch
SummaryRaises ==
    /\ pc = "summarise"
    /\ faults < MaxFaults
    /\ faults' = faults + 1
    /\ ExceptBranch("summary call failed")
    /\ UNCHANGED <<libVars, cfgVars, iteration, response, cur, capped, full_context,
                   limit_check, session, memory, pointers, error, histVars>>

\* _summarize_tool_result returns: add_tool_result
Summarised ==
    /\ pc = "summarise"
    /\ LET entry == ToolResultEntry(cur.tool_name, cur.tool_args, cur.result,
                                    SummaryText)
       IN /\ file' = AppendLine(file, entry)
          /\ appended' = Append(appended, entry)
    /\ idx' = idx + 1
    /\ pc' = AfterCall
    /\ UNCHANGED <<libVars, cfgVars, iteration, response, cur, capped, full_context,
                   events, tool_call_counts, tool_queries, limit_check, session,
                   memory, pointers, error, histVars, faults>>

\* ------------------------------------------------ _finalize_run
RECURSIVE ToolTags(_)
ToolTags(records) ==
    IF records = << >> THEN << >>
    ELSE <<<<"tool", Head(records).tool>>>> \o ToolTags(Tail(records))
MemoryEntry(query, answer, records) ==
    [content |-> <<"Q", query, "A", answer>>, source |-> "agent",
     tags |-> <<"qa", "conversation">> \o ToolTags(SubSeq(records, 1,
                  IF Len(records) < 5 THEN Len(records) ELSE 5))]
SavesToMemory(f, answer) ==
    HasToolResults(f) /\ TextLen(answer) > MemoryMinAnswerLen

Finalize(answer) ==
    /\ session' = IF session_key # {}
                  THEN SessionAppend(session, The(session_key),
                                     Message("assistant", answer))
                  ELSE session
    /\ memory' = IF SavesToMemory(file, answer)
                 THEN Append(memory, MemoryEntry(Query, answer, GetToolCallRecords(file)))
                 ELSE memory

\* session_manager.append or memory_manager.add raises inside _finalize_run
FinalizeFails(answer) ==
    /\ faults < MaxFaults
    /\ \/ /\ session_key # {}
          /\ session' = session
          /\ Raise("session append failed")
       \/ /\ SavesToMemory(file, answer)
          /\ session' = IF session_key # {}
                        THEN SessionAppend(session, The(session_key),
                                           Message("assistant", answer))
                        ELSE session
          /\ Raise("memory add failed")

\* the direct answer: _finalize_run and Done
FinishDirect ==
    /\ pc = "direct"
    /\ Finalize(response.text)
    /\ events' = Append(events, DoneEvent(response.text, << >>, iteration))
    /\ pc' = AfterDone
    /\ UNCHANGED <<libVars, cfgVars, iteration, response, idx, cur, capped, full_context,
                   padVars, pointers, error, histVars, faults>>

FinishDirectRaises ==
    /\ pc = "direct"
    /\ FinalizeFails(response.text)
    /\ UNCHANGED <<libVars, cfgVars, iteration, response, idx, cur, capped, full_context,
                   events, padVars, memory, pointers, histVars>>

\* _call_model(final_prompt, use_tools=False) raises
FinalAnswerRaises ==
    /\ pc = "answer"
    /\ faults < MaxFaults
    /\ final_calls' = final_calls + 1
    /\ Raise("model call failed")
    /\ UNCHANGED <<libVars, cfgVars, iteration, response, idx, cur, capped, full_context,
                   events, padVars, session, memory, pointers, dispatched,
                   requested, reasoning_calls>>

\* the answer Done carries: at the cap, `answer or "Reached maximum ..."`
DoneAnswer(answer) ==
    IF capped /\ TextLen(answer) = 0 THEN MaxIterationsAnswer ELSE answer

\* the final answer: model call with tools disabled, _finalize_run, Done
FinalAnswer ==
    /\ pc = "answer"
    /\ \E answer \in FinalAnswers :
        /\ Finalize(answer)
        /\ events' = Append(events,
               DoneEvent(DoneAnswer(answer), GetToolCallRecords(file), iteration))
    /\ final_calls' = final_calls + 1
    /\ pc' = AfterDone
    /\ UNCHANGED <<libVars, cfgVars, iteration, response, idx, cur, capped, full_context,
                   padVars, pointers, error, dispatched, requested,
                   reasoning_calls, faults>>

FinalAnswerFinalizeRaises ==
    /\ pc = "answer"
    /\ \E answer \in FinalAnswers : FinalizeFails(answer)
    /\ final_calls' = final_calls + 1
    /\ UNCHANGED <<libVars, cfgVars, iteration, response, idx, cur, capped, full_context,
                   events, padVars, memory, pointers, dispatched, requested,
                   reasoning_calls>>

Next ==
    \/ PreflightNoTools
    \/ Preflight
    \/ PreflightRaises
    \/ ReasonRaises
    \/ ReasonToolCalls
    \/ ReasonDirectAnswer
    \/ ReasonNoToolCalls
    \/ CapReached
    \/ SkipDuplicateSkill
    \/ StartTool
    \/ ToolNotFound
    \/ ToolRaises
    \/ ToolReturnsSaveRaises
    \/ ToolReturns
    \/ SummaryRaises
    \/ Summarised
    \/ FinishDirect
    \/ FinishDirectRaises
    \/ FinalAnswerRaises
    \/ FinalAnswer
    \/ FinalAnswerFinalizeRaises

Spec == Init /\ [][Next]_vars

\* every awaited model call, tool invocation and I/O step returns or raises,
\* so the generator always gets to take its next step
FairSpec == Spec /\ WF_vars(Next)

\* ------------------------------------------------ Agent.run: cancellation
\* The task driving the generator is cancelled while run is suspended in an
\* await or a yield: asyncio.CancelledError is a BaseException, so neither
\* the `except Exception` of _execute_single_tool nor any other handler of
\* run sees it, and the generator is left without another step.
Suspended == pc \notin {"done", "raised", "cancelled"}
CancelCaught ==
    /\ Suspended
    /\ pc' = "cancelled"
    /\ error' = {"CancelledError"}
    /\ IF pc = "invoke"
       THEN LET msg == "cancelled"
                entry == ToolResultEntry(cur.tool_name, cur.tool_args, ErrText(msg),
                                         ErrorSummary(cur.tool_name, cur.tool_args, msg))
            IN /\ events' = Append(events, ToolErrorEvent(cur.tool_name, msg))
               /\ file' = AppendLine(file, entry)
       ELSE UNCHANGED <<events, file>>
    /\ UNCHANGED <<libVars, cfgVars, iteration, response, idx, cur, capped, full_context,
                   appended, tool_call_counts, tool_queries, limit_check, session,
                   memory, pointers, histVars, faults>>
Cancel ==
    /\ Suspended
    /\ pc' = "cancelled"
    /\ error' = {"CancelledError"}
    /\ UNCHANGED <<libVars, cfgVars, iteration, response, idx, cur, capped, full_context,
                   padVars, events, session, memory, pointers, histVars, faults>>

CancelNext ==
    \/ PreflightNoTools
    \/ Preflight
    \/ PreflightRaises
    \/ ReasonRaises
    \/ ReasonToolCalls
    \/ ReasonDirectAnswer
    \/ ReasonNoToolCalls
    \/ CapReached
    \/ SkipDuplicateSkill
    \/ StartTool
    \/ ToolNotFound
    \/ ToolRaises
    \/ ToolReturnsSaveRaises
    \/ ToolReturns
    \/ SummaryRaises
    \/ Summarised
    \/ FinishDirect
    \/ FinishDirectRaises
    \/ FinalAnswerRaises
    \/ FinalAnswer
    \/ FinalAnswerFinalizeRaises
    \/ Cancel

CancelSpec == Init /\ [][CancelNext]_vars

\* ===================================================================
\* SessionManager (src/src/utils/session.py)
\* ===================================================================
Tasks == 1..MaxTasks
\* what the session manager does not touch
notStore == <<driverVars, keyVars, contextVars, memoryVars, historyVars,
    selectionVars,
    journalVars,
    managerVars,
    browserVars>>
StoreKey == "agent:main:s1"

\* quote(session_key, safe="") and the underscore replacement, as file names
GetPath(key) ==
    IF key = "agent:main:s1" THEN "agent%3Amain%3As1.jsonl" ELSE <<"quote", key>>
GetLegacyPath(key) ==
    IF key = "agent:main:s1" THEN "agent_main_s1.jsonl" ELSE <<"underscore", key>>

\* message.model_dump_json() and Message(**json.loads(line))
DumpJson(message) == [json |-> <<message.role, message.content>>]
LoadJson(line) == Message(line.json[1], line.json[2])
ParseLines(content) == [i \in 1..Len(content) |-> LoadJson(content[i])]

\* a message written by an earlier process, and the n-th one appended here
OldMessage == Message("assistant", 0)
NewMessage(n) == Message("user", n)

NoTask == [op |-> "none", pc |-> "idle", msg |-> {}, content |-> << >>,
           ret |-> {}, missed |-> FALSE]
InFlight == {t \in DOMAIN tasks : tasks[t].pc # "idle"}
\* a coroutine may enter a call when it is in none and is one of the callers
\* that have not all entered one
CanStart(t) ==
    /\ t \in callers
    /\ tasks[t].pc = "idle"
    /\ Cardinality(InFlight) < Cardinality(callers)

\* the history: completed appends and restarts, in order
RestartMark == [restart |-> TRUE]
Restarts == Cardinality({i \in DOMAIN returned : returned[i] = RestartMark})
AppendsStarted ==
    Cardinality({i \in DOMAIN returned : returned[i] # RestartMark})
    + Cardinality({t \in InFlight : tasks[t].op = "append"})

\* the files an earlier process may have left
InitialDisks ==
    {EmptyDict,
     (GetPath(StoreKey) :> <<DumpJson(OldMessage)>>),
     (GetLegacyPath(StoreKey) :> <<DumpJson(OldMessage)>>)}

StoreStart ==
    /\ cache = EmptyDict
    /\ disk \in InitialDisks
    /\ tasks = [t \in Tasks |-> NoTask]
    /\ returned = << >>
    /\ known_history = {}

\* the first list a load returns is kept for the history
FirstLoaded(known, messages) == IF known = {} THEN {messages} ELSE known

\* load: `if session_key in self._cache: return self._cache[session_key]`
LoadHit(t) ==
    /\ CanStart(t)
    /\ StoreKey \in DOMAIN cache
    /\ tasks' = [tasks EXCEPT ![t] = [NoTask EXCEPT !.op = "load",
                                        !.ret = {cache[StoreKey]}]]
    /\ known_history' = FirstLoaded(known_history, cache[StoreKey])
    /\ UNCHANGED <<notStore, cache, disk, callers, returned>>

\* load on a cache miss: suspends at aiofiles.open
LoadMiss(t) ==
    /\ CanStart(t)
    /\ StoreKey \notin DOMAIN cache
    /\ tasks' = [tasks EXCEPT ![t] = [NoTask EXCEPT !.op = "load",
                                        !.pc = "load_open", !.missed = TRUE]]
    /\ UNCHANGED <<notStore, cache, disk, callers, returned, known_history>>

\* the file is read, or FileNotFoundError sends load to the legacy path
LoadRead(t) ==
    /\ t \in DOMAIN tasks
    /\ tasks[t].pc = "load_open"
    /\ IF GetPath(StoreKey) \in DOMAIN disk
       THEN tasks' = [tasks EXCEPT ![t].pc = "load_store",
                                   ![t].content = disk[GetPath(StoreKey)]]
       ELSE tasks' = [tasks EXCEPT ![t].pc = "legacy_open"]
    /\ UNCHANGED <<notStore, cache, disk, callers, returned, known_history>>

\* the legacy file is read, or FileNotFoundError gives the empty list
LoadLegacyRead(t) ==
    /\ t \in DOMAIN tasks
    /\ tasks[t].pc = "legacy_open"
    /\ tasks' = [tasks EXCEPT ![t].pc = "load_store",
                              ![t].content =
                                  GetOr(disk, GetLegacyPath(StoreKey), << >>)]
    /\ UNCHANGED <<notStore, cache, disk, callers, returned, known_history>>

\* `self._cache[session_key] = messages`
LoadStore(c, key, messages) == Put(c, key, messages)

\* load resumes after the read: the cache entry is written and returned
LoadReturn(t) ==
    /\ t \in DOMAIN tasks
    /\ tasks[t].pc = "load_store"
    /\ LET messages == ParseLines(tasks[t].content)
       IN /\ cache' = LoadStore(cache, StoreKey, messages)
          /\ tasks' = [tasks EXCEPT ![t].pc = "idle", ![t].ret = {messages},
                                    ![t].content = << >>]
          /\ known_history' = FirstLoaded(known_history, messages)
    /\ UNCHANGED <<notStore, disk, callers, returned>>

AppendCachePrepends(c, key, message) ==
    Put(c, key, <<message>> \o GetOr(c, key, << >>))
\* append, step 1: the cache entry is created if missing and extended
AppendCache(c, key, message) == Put(c, key, Append(GetOr(c, key, << >>), message))

\* append up to its first suspension at aiofiles.open
AppendStart(t) ==
    /\ CanStart(t)
    /\ AppendsStarted < MaxAppends
    /\ LET message == NewMessage(AppendsStarted + 1)
       IN /\ cache' = AppendCache(cache, StoreKey, message)
          /\ tasks' = [tasks EXCEPT ![t] = [NoTask EXCEPT !.op = "append",
                                  !.pc = "append_write", !.msg = {message}]]
          /\ known_history' = {Append(h, message) : h \in known_history}
    /\ UNCHANGED <<notStore, disk, callers, returned>>

\* append, step 2: open(file_path, "a") and write one line
AppendWrite(t) ==
    /\ t \in DOMAIN tasks
    /\ tasks[t].pc = "append_write"
    /\ disk' = Put(disk, GetPath(StoreKey),
                   Append(GetOr(disk, GetPath(StoreKey), << >>),
                          DumpJson(The(tasks[t].msg))))
    /\ tasks' = [tasks EXCEPT ![t].pc = "append_return"]
    /\ UNCHANGED <<notStore, cache, callers, returned, known_history>>

\* append resumes after the write and returns
AppendReturn(t) ==
    /\ t \in DOMAIN tasks
    /\ tasks[t].pc = "append_return"
    /\ returned' = Append(returned, The(tasks[t].msg))
    /\ tasks' = [tasks EXCEPT ![t].pc = "idle"]
    /\ UNCHANGED <<notStore, cache, disk, callers, known_history>>

\* get: `self._cache.get(session_key, [])`
SessionGet(t) ==
    /\ CanStart(t)
    /\ tasks' = [tasks EXCEPT ![t] = [NoTask EXCEPT !.op = "get",
                                        !.ret = {GetOr(cache, StoreKey, << >>)}]]
    /\ UNCHANGED <<notStore, cache, disk, callers, returned, known_history>>

\* the process ends with no call in flight and a new one starts: the files
\* stay, the cache is empty
Restart ==
    /\ tasks # EmptyDict
    /\ InFlight = {}
    /\ returned # << >> /\ returned[Len(returned)] # RestartMark
    /\ Restarts < MaxRestarts
    /\ cache' = EmptyDict
    /\ tasks' = [t \in Tasks |-> NoTask]
    /\ returned' = Append(returned, RestartMark)
    /\ UNCHANGED <<notStore, disk, callers, known_history>>

StoreNext ==
    \/ \E t \in Tasks : LoadHit(t)
    \/ \E t \in Tasks : LoadMiss(t)
    \/ \E t \in Tasks : LoadRead(t)
    \/ \E t \in Tasks : LoadLegacyRead(t)
    \/ \E t \in Tasks : LoadReturn(t)
    \/ \E t \in Tasks : AppendStart(t)
    \/ \E t \in Tasks : AppendWrite(t)
    \/ \E t \in Tasks : AppendReturn(t)
    \/ \E t \in Tasks : SessionGet(t)
    \/ Restart

\* callers that await each call before the next, as Agent.run does
SeqStoreInit ==
    /\ DriverIdle /\ KeyIdle /\ ContextIdle /\ MemoryIdle /\ HistoryIdle
    /\ SelectionIdle /\ JournalIdle /\ ManagerIdle /\ BrowserIdle
    /\ StoreStart
    /\ callers = {1}
SeqStoreSpec == SeqStoreInit /\ [][StoreNext]_vars

\* coroutines of one event loop calling the manager at the same time
StoreInit ==
    /\ DriverIdle /\ KeyIdle /\ ContextIdle /\ MemoryIdle /\ HistoryIdle
    /\ SelectionIdle /\ JournalIdle /\ ManagerIdle /\ BrowserIdle
    /\ StoreStart
    /\ callers = Tasks
StoreSpec == StoreInit /\ [][StoreNext]_vars

\* ===================================================================
\* Session keys (src/src/utils/session.py)
\* ===================================================================
notKey == <<driverVars, storeVars, contextVars, memoryVars, historyVars,
    selectionVars,
    journalVars,
    managerVars,
    browserVars>>

\* the arguments the first call is made with
KeyInputs == {{}} \cup {{str} : str \in SeqsUpTo(KeyTokens, MaxKeyLen)}
AgentIdInputs == {{}, {<<"S1">>}, {<<" ", "S1", ":", "Main">>}, {<<":">>}}
SessionIdInputs == {{}, {<<" ">>}, {<<"S1">>}, {<<"agent", ":", "S1", ":", "Main">>}}

KeyInit ==
    /\ DriverIdle /\ StoreIdle /\ ContextIdle /\ MemoryIdle /\ HistoryIdle
    /\ SelectionIdle /\ JournalIdle /\ ManagerIdle /\ BrowserIdle
    /\ key_args \in [agent_id : AgentIdInputs, session_id : SessionIdInputs,
                     session_key : KeyInputs]
    /\ key_results = << >>

\* resolve_session_key(agent_id, session_id, session_key)
Resolve ==
    /\ key_results = << >>
    /\ key_results' = <<resolve_session_key(key_args.agent_id, key_args.session_id,
                                            key_args.session_key)>>
    /\ UNCHANGED <<notKey, key_args>>

\* the key returned is passed again, as session_key
ResolveAgainAsKey ==
    /\ key_results # << >>
    /\ Len(key_results) < MaxResolves
    /\ \E agent_id \in {{}, key_args.agent_id} :
        key_results' = Append(key_results,
            resolve_session_key(agent_id, {}, {key_results[Len(key_results)]}))
    /\ UNCHANGED <<notKey, key_args>>

\* the key returned is passed again, as session_id
ResolveAgainAsId ==
    /\ key_results # << >>
    /\ Len(key_results) < MaxResolves
    /\ \E agent_id \in {{}, key_args.agent_id} :
        key_results' = Append(key_results,
            resolve_session_key(agent_id, {key_results[Len(key_results)]}, {}))
    /\ UNCHANGED <<notKey, key_args>>

KeyNext ==
    \/ Resolve
    \/ ResolveAgainAsKey
    \/ ResolveAgainAsId

KeySpec == KeyInit /\ [][KeyNext]_vars

\* ===================================================================
\* Tool context store (src/src/utils/context.py)
\* ===================================================================
\* A dict is the sequence of its <<key, value>> items in insertion order; a
\* value is a string or a dict of strings.  Two dicts are equal (Python ==)
\* when they hold the same items, in whatever order.
notContext == <<driverVars, storeVars, keyVars, memoryVars, historyVars,
    selectionVars,
    journalVars,
    managerVars,
    browserVars>>
context_dir == ".market/context"

RECURSIVE Mapping(_)
Mapping(d) ==
    {<<d[i][1], IF d[i][1] = "filter" THEN Mapping(d[i][2]) ELSE d[i][2]>> :
        i \in DOMAIN d}
DictEq(a, b) == Mapping(a) = Mapping(b)
Keys(d) == {d[i][1] : i \in DOMAIN d}
Item(d, k) == d[CHOOSE i \in DOMAIN d : d[i][1] = k]

\* rank of a key in the order sorted() gives the keys the model uses
KeyRank(k) ==
    CASE k = "a" -> 1 [] k = "b" -> 2 [] k = "filter" -> 3 [] k = "query" -> 4
      [] k = "skill" -> 5
RECURSIVE SortedItems(_, _)
SortedItems(d, keys) ==
    IF keys = {} THEN << >>
    ELSE LET k == CHOOSE x \in keys : \A y \in keys : KeyRank(x) <= KeyRank(y)
         IN <<Item(d, k)>> \o SortedItems(d, keys \ {k})

\* ToolContextManager._hash_args: the top-level keys sorted, each value
\* serialised as it stands; the digest is a tag of the serialised text
HashArgs(args) == <<"md5", SortedItems(args, Keys(args))>>

GenerateFilename(tool_name, args) ==
    [tool_name |-> tool_name, args_hash |-> HashArgs(args), ext |-> ".json"]
Filepath(filename) == <<context_dir, filename>>

\* ToolContextManager.get_tool_description
GetToolDescription(tool_name, args) ==
    [query |-> IF "query" \in Keys(args) THEN {Item(args, "query")[2]} ELSE {},
     remaining |-> SelectSeq(args, LAMBDA item : item[1] # "query")]

\* results a tool hands to save_context, by what json.loads makes of them
PlainResult == Txt("plain text")
ListResult == Txt("[]")
ToolResultText == Txt("{\"data\": {\"n\": 1}, \"source_urls\": [\"u\"]}")
CamelResultText ==
    Txt("{\"data\": {\"n\": 1}, \"source_urls\": [\"u\"], \"sourceUrls\": [\"v\"]}")
NoDataResultText == Txt("{\"source_urls\": [\"u\"]}")
ContextResults ==
    {PlainResult, ListResult, ToolResultText, CamelResultText, NoDataResultText}
\* json.loads(result): an Optional value, a list or an object of JSON values
JsonLoads(result) ==
    CASE result = ListResult -> {[list |-> << >>]}
      [] result = ToolResultText ->
            {[object |-> [data |-> [json |-> "{\"n\": 1}"],
                          source_urls |-> [json |-> "[\"u\"]"]]]}
      [] result = CamelResultText ->
            {[object |-> [data |-> [json |-> "{\"n\": 1}"],
                          source_urls |-> [json |-> "[\"u\"]"],
                          sourceUrls |-> [json |-> "[\"v\"]"]]]}
      [] result = NoDataResultText ->
            {[object |-> [source_urls |-> [json |-> "[\"u\"]"]]]}
      [] OTHER -> {}
IsObject(parsed) == parsed # {} /\ "object" \in DOMAIN The(parsed)
\* `parsed.get("source_urls") is not None`
HasSourceUrls(result) ==
    /\ IsObject(JsonLoads(result))
    /\ Get(The(JsonLoads(result)).object, "source_urls") # {}
\* parsed.get raises AttributeError when the JSON value is not an object, and
\* parsed["data"] raises KeyError when the object has no data
SaveRaises(result) ==
    \/ JsonLoads(result) # {} /\ ~IsObject(JsonLoads(result))
    \/ HasSourceUrls(result) /\ Get(The(JsonLoads(result)).object, "data") = {}
\* source_urls = parsed.get("sourceUrls")
SourceUrls(result) ==
    IF HasSourceUrls(result) THEN Get(The(JsonLoads(result)).object, "sourceUrls") ELSE {}
\* actual_result: parsed["data"] when the object has source_urls
ActualResult(result) ==
    IF HasSourceUrls(result) THEN The(JsonLoads(result)).object["data"] ELSE result

ContextData(tool_name, args, timestamp, query_id, result) ==
    [tool_name |-> tool_name, args |-> args,
     tool_description |-> GetToolDescription(tool_name, args),
     timestamp |-> timestamp, task_id |-> {}, query_id |-> query_id,
     source_urls |-> SourceUrls(result), result |-> ActualResult(result)]
StoredPointer(filename, tool_name, args, query_id, result) ==
    [filepath |-> Filepath(filename), filename |-> filename,
     tool_name |-> tool_name, args |-> args,
     tool_description |-> GetToolDescription(tool_name, args),
     task_id |-> {}, query_id |-> query_id, source_urls |-> SourceUrls(result)]

\* the arguments of the saves
FilterAB == <<<<"a", "1">>, <<"b", "2">>>>
FilterBA == <<<<"b", "2">>, <<"a", "1">>>>
SearchArgs ==
    {<<<<"query", "AI">>>>}
    \cup {<<<<"query", "AI">>, <<"filter", f>>>> : f \in {FilterAB, FilterBA}}
    \cup {<<<<"filter", f>>, <<"query", "AI">>>> : f \in {FilterAB, FilterBA}}
SaveInputs ==
    {[tool_name |-> "web_search", args |-> a] : a \in SearchArgs}
    \cup {[tool_name |-> "skill", args |-> <<<<"skill", "dcf">>>>]}
QueryIds == {{HashQuery(Query)}, {HashQuery("another query")}}
MissingPath ==
    Filepath([tool_name |-> "missing", args_hash |-> HashArgs(<< >>), ext |-> ".json"])

ContextInit ==
    /\ DriverIdle /\ StoreIdle /\ KeyIdle /\ MemoryIdle /\ HistoryIdle
    /\ SelectionIdle /\ JournalIdle /\ ManagerIdle /\ BrowserIdle
    /\ ContextIdle

\* ToolContextManager.save_context(tool_name, args, result, None, query_id)
SaveContext ==
    /\ Len(context_saves) < MaxSaves
    /\ \E input \in SaveInputs, result \in ContextResults, query_id \in QueryIds :
        LET filename == GenerateFilename(input.tool_name, input.args)
            timestamp == Len(context_saves) + 1
        IN /\ ~SaveRaises(result)
           /\ context_files' = Put(context_files, Filepath(filename),
                  [json |-> ContextData(input.tool_name, input.args, timestamp,
                                        query_id, result)])
           /\ context_pointer' = Append(context_pointer,
                  StoredPointer(filename, input.tool_name, input.args, query_id,
                                result))
           /\ context_saves' = Append(context_saves,
                  [tool_name |-> input.tool_name, args |-> input.args,
                   result |-> result, query_id |-> query_id,
                   filepath |-> {Filepath(filename)}])
    /\ UNCHANGED <<notContext, context_loaded>>

\* save_context raising before the file is opened
SaveContextRaises ==
    /\ Len(context_saves) < MaxSaves
    /\ \E input \in SaveInputs, result \in ContextResults, query_id \in QueryIds :
        /\ SaveRaises(result)
        /\ context_saves' = Append(context_saves,
               [tool_name |-> input.tool_name, args |-> input.args,
                result |-> result, query_id |-> query_id, filepath |-> {}])
    /\ UNCHANGED <<notContext, context_files, context_pointer, context_loaded>>

\* ToolContextManager.get_pointers_for_query
GetPointersForQuery(query_id) ==
    SelectSeq(context_pointer, LAMBDA pointer : pointer.query_id = query_id)

\* ToolContextManager.load_contexts: json.load of each file found
RECURSIVE LoadContextsFrom(_, _)
LoadContextsFrom(files, filepaths) ==
    IF filepaths = << >> THEN << >>
    ELSE (IF Head(filepaths) \in DOMAIN files
          THEN <<files[Head(filepaths)].json>> ELSE << >>)
         \o LoadContextsFrom(files, Tail(filepaths))

LoadContexts ==
    /\ context_pointer # << >>
    /\ \E filepaths \in SeqsUpTo({p.filepath : p \in Range(context_pointer)}
                                 \cup {MissingPath}, MaxLoadPaths) :
        /\ filepaths # << >>
        /\ context_loaded' = {[filepaths |-> filepaths,
               contexts |-> LoadContextsFrom(context_files, filepaths)]}
    /\ UNCHANGED <<notContext, context_files, context_pointer, context_saves>>

ContextNext ==
    \/ SaveContext
    \/ SaveContextRaises
    \/ LoadContexts

ContextSpec == ContextInit /\ [][ContextNext]_vars

\* ===================================================================
\* Tool-call limits of one scratchpad (src/src/agent/scratchpad.py)
\* ===================================================================
\* can_call_tool and record_tool_call, called in turn as _execute_tool
\* calls them, with the calls chosen freely
notPad == <<libVars, tools, max_iterations, session_key, pc, iteration, response,
            idx, capped, full_context, events, file, session, memory, pointers,
            error, appended, requested, reasoning_calls, final_calls, faults>>

PadQueries == {<< >>, <<"a", "x">>, <<"AI", "news">>, <<"a", "News", "AI">>, <<"stocks">>}
PadCalls == {[name |-> "web_search", args |-> [query |-> q]] : q \in PadQueries}
            \cup {SkillCall}

PadInit ==
    /\ DriverIdle /\ StoreIdle /\ KeyIdle /\ ContextIdle /\ MemoryIdle
    /\ HistoryIdle /\ SelectionIdle /\ JournalIdle /\ ManagerIdle /\ BrowserIdle

\* Scratchpad.can_call_tool(tool_name, query)
PadCanCallTool ==
    /\ limit_check = {}
    /\ \E call \in PadCalls :
        LET tool_query == ExtractQueryFromArgs(call.args)
        IN /\ cur' = [tool_name |-> call.name, tool_args |-> call.args,
                      tool_query |-> tool_query, result |-> Txt("")]
           /\ limit_check' = {CanCallTool(tool_call_counts, tool_queries,
                                          call.name, tool_query)}
    /\ UNCHANGED <<notPad, tool_call_counts, tool_queries, dispatched>>

\* Scratchpad.record_tool_call(tool_name, query), after the tool has run
PadRecordToolCall ==
    /\ limit_check # {}
    /\ Len(dispatched) < MaxPadCalls
    /\ tool_call_counts' = RecordCount(tool_call_counts, cur.tool_name)
    /\ tool_queries' = RecordQuery(tool_queries, cur.tool_name, cur.tool_query)
    /\ dispatched' = Append(dispatched, [name |-> cur.tool_name, args |-> cur.tool_args])
    /\ cur' = NoCall
    /\ limit_check' = {}
    /\ UNCHANGED notPad

PadNext ==
    \/ PadCanCallTool
    \/ PadRecordToolCall

PadSpec == PadInit /\ [][PadNext]_vars

\* ===================================================================
\* MemoryManager.search (src/src/utils/memory.py)
\* ===================================================================
\* A text is the sequence of its words.  Times are whole hours, and a score s
\* is kept as the integer s * 10 * DecayHours, which is exact for whole hours.
notMemory == <<driverVars, storeVars, keyVars, contextVars, historyVars,
    selectionVars,
    journalVars,
    managerVars,
    browserVars>>

\* `term in text` for a term without white space: a substring of some word
Contains(word, term) == word = term \/ (term = "ai" /\ word = "said")
TermInText(term, text) == \E i \in DOMAIN text : Contains(Lower(text[i]), term)
\* [t for t in re.split(r"\s+", query.lower()) if t]
QueryTerms(query) == [i \in DOMAIN query |-> Lower(query[i])]

\* the keyword loop: 1.0 for a term found in the content, 0.5 more when it
\* is found in a tag
RECURSIVE KeywordScore(_, _)
KeywordScore(entry, terms) ==
    IF terms = << >> THEN 0
    ELSE (IF TermInText(Head(terms), entry.content)
          THEN 10 * DecayHours
               + (IF \E i \in DOMAIN entry.tags : Contains(Lower(entry.tags[i]), Head(terms))
                  THEN 5 * DecayHours ELSE 0)
          ELSE 0)
         + KeywordScore(entry, Tail(terms))
\* max(0, 1 - age_hours / (24 * 30)) * 0.3, with time.time() read as now
RecencyBoost(now, created_at) ==
    LET left == DecayHours - (now - created_at)
    IN 3 * (IF left < 0 THEN 0 ELSE left)

\* scored.sort(key=lambda x: x.score, reverse=True): stable, highest first
RECURSIVE InsertByScore(_, _)
InsertByScore(sorted, r) ==
    IF sorted = << >> THEN <<r>>
    ELSE IF Head(sorted).score >= r.score
         THEN <<Head(sorted)>> \o InsertByScore(Tail(sorted), r)
         ELSE <<r>> \o sorted
RECURSIVE SortByScore(_)
SortByScore(rs) ==
    IF rs = << >> THEN << >>
    ELSE InsertByScore(SortByScore(SubSeq(rs, 1, Len(rs) - 1)), rs[Len(rs)])

MemoryContents == {<<"AI", "news">>, <<"he", "said">>}
MemoryTags == {<< >>, <<"ai">>, <<"stocks">>}
MemoryQueries == {<<"AI">>, <<"News", "AI">>, <<"stocks">>}
EntryChoices ==
    [content : MemoryContents, tags : MemoryTags, created_at : 0..MaxCreatedAt]
\* the clock when the search starts: just after the entries were made, or
\* close to the end of their decay
ClockStarts == {MaxCreatedAt, DecayHours - 1}
ClockValues == UNION {c..(c + MaxTicks) : c \in ClockStarts}

\* search(query) after `await self.load()`, before the first entry
MemoryInit ==
    /\ DriverIdle /\ StoreIdle /\ KeyIdle /\ ContextIdle /\ HistoryIdle
    /\ SelectionIdle /\ JournalIdle /\ ManagerIdle /\ BrowserIdle
    /\ memory_entries \in SeqsUpTo(EntryChoices, MaxMemoryEntries) \ {<< >>}
    /\ query_terms \in {QueryTerms(q) : q \in MemoryQueries}
    /\ clock \in ClockStarts
    /\ entry_pos = 1
    /\ scored = << >>
    /\ search_result = {}

\* the wall clock moves on while the loop runs
ClockTick ==
    /\ search_result = {}
    /\ clock + 1 \in ClockValues
    /\ clock' = clock + 1
    /\ UNCHANGED <<notMemory, memory_entries, query_terms, entry_pos, scored,
                   search_result>>

\* one pass of `for entry in self.entries`
ScoreEntry ==
    /\ search_result = {}
    /\ entry_pos \in DOMAIN memory_entries
    /\ LET entry == memory_entries[entry_pos]
           score == KeywordScore(entry, query_terms)
       IN scored' = IF score > 0
                    THEN Append(scored,
                                [entry |-> entry,
                                 score |-> score + RecencyBoost(clock, entry.created_at)])
                    ELSE scored
    /\ entry_pos' = entry_pos + 1
    /\ UNCHANGED <<notMemory, memory_entries, query_terms, clock, search_result>>

\* scored.sort(...); return scored[:limit]
SearchReturns ==
    /\ search_result = {}
    /\ entry_pos = Len(memory_entries) + 1
    /\ scored' = SortByScore(scored)
    /\ search_result' = {SubSeq(SortByScore(scored), 1,
                                IF Len(scored) < SearchLimit THEN Len(scored)
                                ELSE SearchLimit)}
    /\ UNCHANGED <<notMemory, memory_entries, query_terms, clock, entry_pos>>

MemoryNext ==
    \/ ClockTick
    \/ ScoreEntry
    \/ SearchReturns

MemorySpec == MemoryInit /\ [][MemoryNext]_vars

\* ===================================================================
\* MessageHistory (src/src/utils/message_history.py)
\* ===================================================================
notHistory == <<driverVars, storeVars, keyVars, contextVars, memoryVars,
    selectionVars,
    journalVars,
    managerVars,
    browserVars>>
HistoryTasks == 1..MaxHistoryTasks
HistoryQueries == {"AI news", "stocks"}
\* what the selection call may answer as message_ids
IdLists == {<< >>, <<0>>, <<1, 0>>, <<7>>}

\* hashlib.md5(query.encode()).hexdigest()[:12]
HistoryHashQuery(query) == <<"md5", query>>
\* what generate_summary returns: the stripped response, or the fallback of
\* its except branch
Summaries(query) == {<<"summary of", query>>, <<"Answer to: ", query>>}
HistoryMessage(id, query, answer, summary) ==
    [id |-> id, query |-> query, answer |-> answer, summary |-> summary]
\* [self.messages[idx] for idx in selected_ids if 0 <= idx < len(self.messages)]
RECURSIVE SelectedMessages(_, _)
SelectedMessages(msgs, ids) ==
    IF ids = << >> THEN << >>
    ELSE (IF Head(ids) >= 0 /\ Head(ids) < Len(msgs)
          THEN <<msgs[Head(ids) + 1]>> ELSE << >>)
         \o SelectedMessages(msgs, Tail(ids))

IdleTask(calls) == [op |-> "idle", pc |-> "idle", query |-> "", listed |-> << >>,
                    ret |-> {}, calls |-> calls]
MayCall(t) == history_tasks[t].pc = "idle" /\ history_tasks[t].calls < MaxHistoryCalls

HistoryInit ==
    /\ DriverIdle /\ StoreIdle /\ KeyIdle /\ ContextIdle /\ MemoryIdle
    /\ SelectionIdle /\ JournalIdle /\ ManagerIdle /\ BrowserIdle
    /\ history_messages = << >>
    /\ relevantMessagesByQuery = EmptyDict
    /\ selection_basis = EmptyDict
    /\ history_tasks = [t \in HistoryTasks |-> IdleTask(0)]

\* add_message up to `await self.generate_summary(...)`: the cache is cleared
AddMessageClears(t) ==
    /\ MayCall(t)
    /\ \E query \in HistoryQueries :
          history_tasks' = [history_tasks EXCEPT
                                ![t] = [IdleTask(@.calls + 1) EXCEPT
                                            !.op = "add", !.pc = "summary",
                                            !.query = query]]
    /\ relevantMessagesByQuery' = EmptyDict
    /\ selection_basis' = EmptyDict
    /\ UNCHANGED <<notHistory, history_messages>>

\* the summary is there: self.messages.append(Message(id=len(self.messages), ...))
AddMessageAppends(t) ==
    /\ history_tasks[t].pc = "summary"
    /\ \E summary \in Summaries(history_tasks[t].query) :
          history_messages' =
              Append(history_messages,
                     HistoryMessage(Len(history_messages), history_tasks[t].query,
                                    "answer", summary))
    /\ history_tasks' = [history_tasks EXCEPT ![t] = IdleTask(@.calls)]
    /\ UNCHANGED <<notHistory, relevantMessagesByQuery, selection_basis>>

\* select_relevant_messages: `if len(self.messages) == 0: return []`
SelectEmpty(t) ==
    /\ MayCall(t)
    /\ history_messages = << >>
    /\ history_tasks' = [history_tasks EXCEPT
                             ![t] = [IdleTask(@.calls + 1) EXCEPT !.ret = {<< >>}]]
    /\ UNCHANGED <<notHistory, history_messages, relevantMessagesByQuery,
                   selection_basis>>

\* `if cached is not None: return cached`
SelectCached(t) ==
    /\ MayCall(t)
    /\ history_messages # << >>
    /\ \E query \in HistoryQueries :
          /\ HistoryHashQuery(query) \in DOMAIN relevantMessagesByQuery
          /\ history_tasks' =
                [history_tasks EXCEPT
                    ![t] = [IdleTask(@.calls + 1) EXCEPT
                                !.ret = {relevantMessagesByQuery[HistoryHashQuery(query)]}]]
    /\ UNCHANGED <<notHistory, history_messages, relevantMessagesByQuery,
                   selection_basis>>

\* the cache misses: messages_info is built from self.messages and the
\* selection call is awaited
SelectAsks(t) ==
    /\ MayCall(t)
    /\ history_messages # << >>
    /\ \E query \in HistoryQueries :
          /\ HistoryHashQuery(query) \notin DOMAIN relevantMessagesByQuery
          /\ history_tasks' =
                [history_tasks EXCEPT
                    ![t] = [IdleTask(@.calls + 1) EXCEPT
                                !.op = "select", !.pc = "select", !.query = query,
                                !.listed = history_messages]]
    /\ UNCHANGED <<notHistory, history_messages, relevantMessagesByQuery,
                   selection_basis>>

\* the selection call returns: the ids are looked up in self.messages as it
\* is now, and the result is cached and returned
SelectStores(t) ==
    /\ history_tasks[t].pc = "select"
    /\ \E ids \in IdLists :
          LET selected_messages == SelectedMessages(history_messages, ids)
              cacheKey == HistoryHashQuery(history_tasks[t].query)
          IN /\ relevantMessagesByQuery' =
                    Put(relevantMessagesByQuery, cacheKey, selected_messages)
             /\ selection_basis' =
                    Put(selection_basis, cacheKey, history_tasks[t].listed)
             /\ history_tasks' = [history_tasks EXCEPT
                                      ![t] = [IdleTask(@.calls) EXCEPT
                                                  !.ret = {selected_messages}]]
    /\ UNCHANGED <<notHistory, history_messages>>

\* the selection call raises: `except Exception: return []`
SelectFails(t) ==
    /\ history_tasks[t].pc = "select"
    /\ history_tasks' = [history_tasks EXCEPT
                             ![t] = [IdleTask(@.calls) EXCEPT !.ret = {<< >>}]]
    /\ UNCHANGED <<notHistory, history_messages, relevantMessagesByQuery,
                   selection_basis>>

HistoryNext ==
    \/ \E t \in HistoryTasks : AddMessageClears(t)
    \/ \E t \in HistoryTasks : AddMessageAppends(t)
    \/ \E t \in HistoryTasks : SelectEmpty(t)
    \/ \E t \in HistoryTasks : SelectCached(t)
    \/ \E t \in HistoryTasks : SelectAsks(t)
    \/ \E t \in HistoryTasks : SelectStores(t)
    \/ \E t \in HistoryTasks : SelectFails(t)

HistorySpec == HistoryInit /\ [][HistoryNext]_vars

\* ===================================================================
\* Agent._build_llm_selected_context (src/src/agent/agent.py)
\* ===================================================================
notSelection == <<driverVars, storeVars, keyVars, contextVars, memoryVars, historyVars,
    journalVars,
    managerVars,
    browserVars>>

\* results of 15, 5000 and 9000 estimated tokens
SelectableResults ==
    {Txt("## Skill: dcf ..."), Txt("{\"n\": 1}"), Txt("{\"rows\": [1, 2]}")}
\* the contexts of a journal whose entry 0 is the init entry
ContextAt(i, result) ==
    [tool_name |-> "web_search", args |-> [query |-> <<"AI", "news">>],
     result |-> result, llm_summary |-> SummaryText, index |-> i]
ValidLists ==
    {[i \in 1..Len(rs) |-> ContextAt(i, rs[i])] :
        rs \in SeqsUpTo(SelectableResults, MaxContexts)}

\* json.loads(response_text): an array of numbers, strings or lists, an
\* object given by its keys, a number, or nothing when the text is not JSON
IntElem(n) == [int |-> n]
StrElem(str) == [str |-> str]
ListElem(elems) == [list |-> elems]
JsonArrays ==
    {<< >>, <<IntElem(1)>>, <<IntElem(1), IntElem(2)>>,
     <<IntElem(2), IntElem(3), IntElem(2)>>, <<IntElem(3), IntElem(7)>>,
     <<StrElem("1")>>, <<ListElem(<<IntElem(1)>>)>>, <<IntElem(1), ListElem(<< >>)>>}
SelectionResponses ==
    {{[array |-> a]} : a \in JsonArrays}
    \cup {{[object |-> {"1"}]}, {[number |-> 1]}, {}}

\* set(json.loads(response_text)): an Optional set, none when set() raises
\* TypeError (an unhashable element, or a value that cannot be iterated)
SelectedSet(parsed) ==
    IF "array" \in DOMAIN parsed
    THEN IF \A i \in DOMAIN parsed.array : "list" \notin DOMAIN parsed.array[i]
         THEN {Range(parsed.array)}
         ELSE {}
    ELSE IF "object" \in DOMAIN parsed
    THEN {{StrElem(k) : k \in parsed.object}}
    ELSE {}
\* the indices ctx.index can be equal to
IntsOf(selected) == {e.int : e \in {x \in selected : "int" \in DOMAIN x}}

\* _build_llm_selected_context inside the try of _build_full_context; the
\* answer is Optional, none when the text is not JSON
SelectedContext(contexts, answer) ==
    IF answer = {} \/ SelectedSet(The(answer)) = {}
    THEN ContextText("summaries", << >>, contexts)
    ELSE LET split == SplitSelected(contexts, IntsOf(The(SelectedSet(The(answer)))), 0)
         IN ContextText("selected", split[1], split[2])

\* _build_full_context has found the valid results over the budget
SelectionInit ==
    /\ DriverIdle /\ StoreIdle /\ KeyIdle /\ ContextIdle /\ MemoryIdle
    /\ HistoryIdle /\ JournalIdle /\ ManagerIdle /\ BrowserIdle
    /\ valid_contexts \in {cs \in ValidLists : SumTokens(cs) > TOKEN_BUDGET}
    /\ selection_response = {}
    /\ built_context = {}

\* llm_call returns a text
SelectionAnswers ==
    /\ selection_response = {}
    /\ built_context = {}
    /\ \E answer \in SelectionResponses : selection_response' = {answer}
    /\ UNCHANGED <<notSelection, valid_contexts, built_context>>

\* llm_call raises: `except Exception: return self._format_summaries_only(valid)`
SelectionRaises ==
    /\ selection_response = {}
    /\ built_context = {}
    /\ built_context' = {ContextText("summaries", << >>, valid_contexts)}
    /\ UNCHANGED <<notSelection, valid_contexts, selection_response>>

\* the rest of _build_llm_selected_context, and the except branch
BuildSelected ==
    /\ selection_response # {}
    /\ built_context = {}
    /\ built_context' = {SelectedContext(valid_contexts, The(selection_response))}
    /\ UNCHANGED <<notSelection, valid_contexts, selection_response>>

SelectionNext ==
    \/ SelectionAnswers
    \/ SelectionRaises
    \/ BuildSelected

SelectionSpec == SelectionInit /\ [][SelectionNext]_vars

\* ===================================================================
\* Scratchpads of several runs (src/src/agent/scratchpad.py)
\* ===================================================================
notJournal == <<driverVars, storeVars, keyVars, contextVars, memoryVars,
    historyVars, selectionVars,
    managerVars,
    browserVars>>
JournalRuns == 1..MaxRuns
JournalQueries == {"AI news", "stocks"}
JournalCalls == ToolCallChoices

\* f"{timestamp}_{query_hash}.jsonl" under scratchpad_dir: the timestamp is
\* strftime("%Y-%m-%d-%H%M%S"), the hash is taken from the md5 of the query
ScratchpadPath(second, query) == <<second, HashQuery(query)>>
\* self._read_entries() of a run's scratchpad
RunReadEntries(run) == ReadEntries(GetOr(journal_files, scratchpads[run], << >>))

JournalInit ==
    /\ DriverIdle /\ StoreIdle /\ KeyIdle /\ ContextIdle /\ MemoryIdle
    /\ HistoryIdle /\ ManagerIdle /\ BrowserIdle
    /\ SelectionIdle
    /\ journal_clock = 0
    /\ journal_files = EmptyDict
    /\ scratchpads = EmptyDict
    /\ own_entries = EmptyDict

\* the wall clock reaches the next second
SecondPasses ==
    /\ journal_clock < MaxSeconds
    /\ journal_clock' = journal_clock + 1
    /\ UNCHANGED <<notJournal, journal_files, scratchpads, own_entries>>

\* Scratchpad(query) in Agent.run: the path, then the init entry appended
NewScratchpad(run, query) ==
    /\ run \notin DOMAIN scratchpads
    /\ LET filepath == ScratchpadPath(journal_clock, query)
       IN /\ scratchpads' = Put(scratchpads, run, filepath)
          /\ journal_files' =
                Put(journal_files, filepath,
                    AppendLine(GetOr(journal_files, filepath, << >>), InitEntry(query)))
          /\ own_entries' = Put(own_entries, run, <<InitEntry(query)>>)
    /\ UNCHANGED <<notJournal, journal_clock>>

\* add_tool_result of a run
AddToolResult(run, call) ==
    /\ run \in DOMAIN scratchpads
    /\ Len(own_entries[run]) <= MaxJournalAppends
    /\ LET filepath == scratchpads[run]
           entry == ToolResultEntry(call.name, call.args,
                                    ToolOutput(call.name, call.args), SummaryText)
       IN /\ journal_files' =
                Put(journal_files, filepath,
                    AppendLine(GetOr(journal_files, filepath, << >>), entry))
          /\ own_entries' = Put(own_entries, run, Append(own_entries[run], entry))
    /\ UNCHANGED <<notJournal, journal_clock, scratchpads>>

JournalNext ==
    \/ SecondPasses
    \/ \E run \in JournalRuns, query \in JournalQueries : NewScratchpad(run, query)
    \/ \E run \in JournalRuns, call \in JournalCalls : AddToolResult(run, call)

JournalSpec == JournalInit /\ [][JournalNext]_vars

\* ===================================================================
\* MemoryManager.add (src/src/utils/memory.py)
\* ===================================================================
\* index.json is absent ({}), holds text that is not JSON (a file just
\* opened with "w"), or holds a list of entries.  An entry is given by its id.
notManager == <<driverVars, storeVars, keyVars, contextVars, memoryVars,
    historyVars, selectionVars, journalVars,
    browserVars>>
AddTasks == 1..MaxAdds
StoredEntry == [id |-> 0]
\* f"mem_{int(time.time() * 1000)}_{secrets.token_hex(3)}", one per call
NewEntry(t) == [id |-> t]
NotJson == [invalid |-> TRUE]
IndexOf(entries) == [data |-> entries]
NoAdd == [pc |-> "idle", data |-> << >>, ret |-> {}]

ManagerInit ==
    /\ DriverIdle /\ StoreIdle /\ KeyIdle /\ ContextIdle /\ MemoryIdle /\ HistoryIdle /\ BrowserIdle
    /\ SelectionIdle /\ JournalIdle /\ BrowserIdle
    /\ manager_entries = << >>
    /\ manager_loaded = FALSE
    /\ index_json \in {{}, {IndexOf(<<StoredEntry>>)}}
    /\ add_tasks = [t \in AddTasks |-> NoAdd]

\* add after load has returned: the entry is appended and _save suspends at
\* aiofiles.open(self.index_path, "w")
AppendEntry(t, entries) ==
    /\ manager_entries' = Append(entries, NewEntry(t))
    /\ add_tasks' = [add_tasks EXCEPT ![t].pc = "save_open"]

\* add: `await self.load()` returns at once when loaded, else suspends at
\* aiofiles.open(self.index_path, "r")
AddStart(t) ==
    /\ add_tasks[t].pc = "idle" /\ add_tasks[t].ret = {}
    /\ IF manager_loaded
       THEN AppendEntry(t, manager_entries)
       ELSE /\ add_tasks' = [add_tasks EXCEPT ![t].pc = "load_open"]
            /\ UNCHANGED manager_entries
    /\ UNCHANGED <<notManager, manager_loaded, index_json>>

\* load: the file is open and f.read() suspends, or FileNotFoundError gives
\* `self.entries = []`, `self.loaded = True` and add goes on
ManagerLoadOpen(t) ==
    /\ add_tasks[t].pc = "load_open"
    /\ IF index_json # {}
       THEN /\ add_tasks' = [add_tasks EXCEPT ![t].pc = "load_read"]
            /\ UNCHANGED <<manager_entries, manager_loaded>>
       ELSE /\ manager_loaded' = TRUE
            /\ AppendEntry(t, << >>)
    /\ UNCHANGED <<notManager, index_json>>

\* load: the content is read; json.loads gives the entries, which are
\* assigned, or raises JSONDecodeError; the file is then closed (a suspension)
ManagerLoadRead(t) ==
    /\ add_tasks[t].pc = "load_read"
    /\ index_json # {}
    /\ IF The(index_json) = NotJson
       THEN /\ add_tasks' = [add_tasks EXCEPT ![t].pc = "load_failed"]
            /\ UNCHANGED manager_entries
       ELSE /\ manager_entries' = The(index_json).data
            /\ add_tasks' = [add_tasks EXCEPT ![t].pc = "load_close"]
    /\ UNCHANGED <<notManager, manager_loaded, index_json>>

\* load: after the close, `self.entries = []` in the except branch,
\* `self.loaded = True`, and add goes on
ManagerLoadClose(t) ==
    /\ add_tasks[t].pc \in {"load_close", "load_failed"}
    /\ manager_loaded' = TRUE
    /\ AppendEntry(t, IF add_tasks[t].pc = "load_failed" THEN << >>
                      ELSE manager_entries)
    /\ UNCHANGED <<notManager, index_json>>

\* _save: the file is open for writing, so empty; the entries are dumped
\* and f.write suspends
ManagerSaveOpen(t) ==
    /\ add_tasks[t].pc = "save_open"
    /\ index_json' = {NotJson}
    /\ add_tasks' = [add_tasks EXCEPT ![t].pc = "save_write",
                                      ![t].data = manager_entries]
    /\ UNCHANGED <<notManager, manager_entries, manager_loaded>>

\* a text written at offset 0 of a file that another handle has filled
\* since the open: the longer text that was there keeps its tail, and the
\* whole is not JSON
WrittenOver(content, entries) ==
    IF content # {} /\ The(content) # NotJson /\ Len(The(content).data) > Len(entries)
    THEN {NotJson}
    ELSE {IndexOf(entries)}

\* _save: the text is written, and add returns the id
ManagerSaveWrite(t) ==
    /\ add_tasks[t].pc = "save_write"
    /\ index_json' = WrittenOver(index_json, add_tasks[t].data)
    /\ add_tasks' = [add_tasks EXCEPT ![t].pc = "idle", ![t].data = << >>,
                                      ![t].ret = {NewEntry(t).id}]
    /\ UNCHANGED <<notManager, manager_entries, manager_loaded>>

ManagerNext ==
    \/ \E t \in AddTasks : AddStart(t)
    \/ \E t \in AddTasks : ManagerLoadOpen(t)
    \/ \E t \in AddTasks : ManagerLoadRead(t)
    \/ \E t \in AddTasks : ManagerLoadClose(t)
    \/ \E t \in AddTasks : ManagerSaveOpen(t)
    \/ \E t \in AddTasks : ManagerSaveWrite(t)

ManagerSpec == ManagerInit /\ [][ManagerNext]_vars

\* ===================================================================
\* BrowserSessionManager (src/src/tools/browser/session.py)
\* ===================================================================
\* self._lock is an asyncio.Lock: acquire waits while the lock is held,
\* whoever holds it.  A coroutine is in one call; `inner` tells that its
\* close_session was called by create_session or cleanup_all_sessions, which
\* wait for it holding the lock, and `todo` holds the ids still to close.
notBrowser == <<driverVars, storeVars, keyVars, contextVars, memoryVars,
    historyVars, selectionVars, journalVars, managerVars>>
BrowserTasks == 1..MaxBrowserTasks
BrowserIds == {"s1", "s2"}
BrowserOps == {"create_session", "close_session", "cleanup_all_sessions"}
NoBrowserCall ==
    [op |-> "none", pc |-> "idle", sid |-> "", todo |-> {}, inner |-> FALSE,
     calls |-> 0, ret |-> {}]
\* expired_ids of _cleanup_expired_sessions
ExpiredIds == {sid \in DOMAIN browser_sessions : browser_sessions[sid].expired}
SomeId(ids) == CHOOSE sid \in ids : TRUE

BrowserInit ==
    /\ DriverIdle /\ StoreIdle /\ KeyIdle /\ ContextIdle /\ MemoryIdle /\ HistoryIdle
    /\ SelectionIdle /\ JournalIdle /\ ManagerIdle
    /\ browser_sessions = EmptyDict
    /\ browser_open = FALSE
    /\ browser_lock = {}
    /\ browser_tasks = [t \in BrowserTasks |-> NoBrowserCall]

\* a coroutine calls the manager and reaches `async with self._lock`
BrowserCall(t, op, sid) ==
    /\ browser_tasks[t].pc = "idle"
    /\ browser_tasks[t].calls < MaxBrowserCalls
    /\ browser_tasks' = [browser_tasks EXCEPT ![t] =
          [NoBrowserCall EXCEPT !.op = op, !.sid = sid,
                         !.pc = IF op = "close_session" THEN "close_lock" ELSE "lock",
                         !.calls = browser_tasks[t].calls + 1]]
    /\ UNCHANGED <<notBrowser, browser_sessions, browser_open, browser_lock>>

\* the session of some id has not been used for session_timeout seconds
SessionExpires(sid) ==
    /\ sid \in DOMAIN browser_sessions
    /\ ~browser_sessions[sid].expired
    /\ browser_sessions' = [browser_sessions EXCEPT ![sid].expired = TRUE]
    /\ UNCHANGED <<notBrowser, browser_open, browser_lock, browser_tasks>>

\* the call returns to its caller: a value, or the exception raised
BrowserReturns(t, value) ==
    [browser_tasks[t] EXCEPT !.pc = "idle", !.ret = {value}, !.todo = {},
                             !.inner = FALSE]
\* the caller of an inner close_session goes on: the next id of its loop,
\* then the rest of create_session or of cleanup_all_sessions
AfterInnerClose(t, sessions) ==
    LET rest == browser_tasks[t].todo \ {browser_tasks[t].sid}
    IN IF rest # {}
       THEN [browser_tasks[t] EXCEPT !.pc = "close_lock", !.sid = SomeId(rest),
                                     !.todo = rest]
       ELSE IF browser_tasks[t].op = "create_session"
       THEN IF Cardinality(DOMAIN sessions) >= max_sessions
            THEN BrowserReturns(t, "RuntimeError")
            ELSE [browser_tasks[t] EXCEPT !.pc = "new_context", !.inner = FALSE,
                                          !.todo = {}]
       ELSE [browser_tasks[t] EXCEPT !.pc = "browser_close", !.inner = FALSE,
                                     !.todo = {}]

\* create_session gets the lock: at max_sessions it cleans up the expired
\* sessions, each through close_session, and raises when none is expired;
\* below it goes on to _get_browser and browser.new_context
CreateAcquires(t) ==
    /\ browser_tasks[t].pc = "lock" /\ browser_tasks[t].op = "create_session"
    /\ browser_lock = {}
    /\ IF Cardinality(DOMAIN browser_sessions) < max_sessions
       THEN /\ browser_lock' = {t}
            /\ browser_tasks' = [browser_tasks EXCEPT ![t].pc = "new_context"]
       ELSE IF ExpiredIds = {}
       THEN /\ browser_lock' = {}
            /\ browser_tasks' = [browser_tasks EXCEPT ![t] =
                                    BrowserReturns(t, "RuntimeError")]
       ELSE /\ browser_lock' = {t}
            /\ browser_tasks' = [browser_tasks EXCEPT ![t] =
                  [browser_tasks[t] EXCEPT !.pc = "close_lock", !.inner = TRUE,
                                           !.todo = ExpiredIds,
                                           !.sid = SomeId(ExpiredIds)]]
    /\ UNCHANGED <<notBrowser, browser_sessions, browser_open>>

\* create_session after the browser, the context and the page are there:
\* the session is stored, the lock released
CreateReturns(t) ==
    /\ browser_tasks[t].pc = "new_context"
    /\ browser_open' = TRUE
    /\ browser_sessions' = Put(browser_sessions, browser_tasks[t].sid,
                               [expired |-> FALSE])
    /\ browser_lock' = {}
    /\ browser_tasks' = [browser_tasks EXCEPT ![t] = BrowserReturns(t, "session")]
    /\ UNCHANGED notBrowser

\* close_session gets the lock and pops the session: when there is one it
\* awaits session.close(), else it returns False
CloseAcquires(t) ==
    /\ browser_tasks[t].pc = "close_lock"
    /\ browser_lock = {}
    /\ IF browser_tasks[t].sid \in DOMAIN browser_sessions
       THEN /\ browser_lock' = {t}
            /\ browser_sessions' =
                  [sid \in DOMAIN browser_sessions \ {browser_tasks[t].sid} |->
                      browser_sessions[sid]]
            /\ browser_tasks' = [browser_tasks EXCEPT ![t].pc = "closing"]
       ELSE /\ browser_lock' = {}
            /\ browser_sessions' = browser_sessions
            /\ browser_tasks' = [browser_tasks EXCEPT ![t] =
                  IF browser_tasks[t].inner
                  THEN AfterInnerClose(t, browser_sessions)
                  ELSE BrowserReturns(t, "False")]
    /\ UNCHANGED <<notBrowser, browser_open>>

\* close_session after session.close(): the lock is released, True returned
CloseReturns(t) ==
    /\ browser_tasks[t].pc = "closing"
    /\ browser_lock' = {}
    /\ browser_tasks' = [browser_tasks EXCEPT ![t] =
          IF browser_tasks[t].inner
          THEN AfterInnerClose(t, browser_sessions)
          ELSE BrowserReturns(t, "True")]
    /\ UNCHANGED <<notBrowser, browser_sessions, browser_open>>

\* cleanup_all_sessions gets the lock: it closes every session through
\* close_session, then the browser
CleanupAcquires(t) ==
    /\ browser_tasks[t].pc = "lock" /\ browser_tasks[t].op = "cleanup_all_sessions"
    /\ browser_lock = {}
    /\ IF DOMAIN browser_sessions # {}
       THEN /\ browser_lock' = {t}
            /\ browser_tasks' = [browser_tasks EXCEPT ![t] =
                  [browser_tasks[t] EXCEPT !.pc = "close_lock", !.inner = TRUE,
                                           !.todo = DOMAIN browser_sessions,
                                           !.sid = SomeId(DOMAIN browser_sessions)]]
       ELSE IF browser_open
       THEN /\ browser_lock' = {t}
            /\ browser_tasks' = [browser_tasks EXCEPT ![t].pc = "browser_close"]
       ELSE /\ browser_lock' = {}
            /\ browser_tasks' = [browser_tasks EXCEPT ![t] = BrowserReturns(t, "None")]
    /\ UNCHANGED <<notBrowser, browser_sessions, browser_open>>

\* cleanup_all_sessions after self._browser.close()
CleanupReturns(t) ==
    /\ browser_tasks[t].pc = "browser_close"
    /\ browser_open' = FALSE
    /\ browser_lock' = {}
    /\ browser_tasks' = [browser_tasks EXCEPT ![t] = BrowserReturns(t, "None")]
    /\ UNCHANGED <<notBrowser, browser_sessions>>

\* what the event loop does for a coroutine that is in a call
BrowserStep(t) ==
    \/ CreateAcquires(t)
    \/ CreateReturns(t)
    \/ CloseAcquires(t)
    \/ CloseReturns(t)
    \/ CleanupAcquires(t)
    \/ CleanupReturns(t)

BrowserNext ==
    \/ \E t \in BrowserTasks, op \in BrowserOps, sid \in BrowserIds :
          BrowserCall(t, op, sid)
    \/ \E sid \in BrowserIds : SessionExpires(sid)
    \/ \E t \in BrowserTasks : CreateAcquires(t)
    \/ \E t \in BrowserTasks : CreateReturns(t)
    \/ \E t \in BrowserTasks : CloseAcquires(t)
    \/ \E t \in BrowserTasks : CloseReturns(t)
    \/ \E t \in BrowserTasks : CleanupAcquires(t)
    \/ \E t \in BrowserTasks : CleanupReturns(t)

BrowserSpec == BrowserInit /\ [][BrowserNext]_vars
\* the event loop resumes every coroutine that can go on, and asyncio.Lock
\* wakes its waiters in the order they came
BrowserFairSpec ==
    BrowserSpec /\ \A t \in BrowserTasks : SF_vars(BrowserStep(t))

\* ===================================================================
\* Properties of the driver (specification Spec)
\* ===================================================================
EventIndices(type) == {i \in DOMAIN events : events[i].type = type}
CountEvents(type) == Cardinality(EventIndices(type))
Terminated == error # {} \/ CountEvents("done") > 0

\* the calls of the ToolStart events, in event order
RECURSIVE StartsOf(_)
StartsOf(evts) ==
    IF evts = << >> THEN << >>
    ELSE IF Head(evts).type = "tool_start"
         THEN <<[name |-> Head(evts).tool, args |-> Head(evts).args]>>
              \o StartsOf(Tail(evts))
         ELSE StartsOf(Tail(evts))

\* the calls of the tool_result entries of the journal, in journal order
RECURSIVE CallsOf(_)
CallsOf(es) ==
    IF es = << >> THEN << >>
    ELSE IF IsToolResult(Head(es))
         THEN <<[name |-> The(Head(es).tool_name), args |-> The(Head(es).args)]>>
              \o CallsOf(Tail(es))
         ELSE CallsOf(Tail(es))

\* the requested calls without the repeats of a skill already requested
RECURSIVE WithoutRepeatedSkills(_, _)
WithoutRepeatedSkills(calls, seen) ==
    IF calls = << >> THEN << >>
    ELSE LET c == Head(calls)
         IN IF c.name = "skill" /\ SkillNameOf(c) \in seen
            THEN WithoutRepeatedSkills(Tail(calls), seen)
            ELSE <<c>> \o WithoutRepeatedSkills(Tail(calls),
                     IF c.name = "skill" THEN seen \cup {SkillNameOf(c)} ELSE seen)
ExpectedStarts == WithoutRepeatedSkills(requested, {})

IsPrefix(s, t) == Len(s) <= Len(t) /\ SubSeq(t, 1, Len(s)) = s
InCall == pc \in {"invoke", "summarise"}

\* C1: a run has at most one terminal outcome, a single Done or a single
\* propagated exception, never both, and nothing is emitted after it.
C1_OneTerminalOutcome ==
    /\ [](/\ CountEvents("done") <= 1
          /\ ~(error # {} /\ CountEvents("done") > 0)
          /\ \A i \in EventIndices("done") : i = Len(events))
    /\ [][Terminated => (events' = events /\ error' = error)]_vars
C1_Witness ==
    /\ pc = "done"
    /\ CountEvents("done") = 1
    /\ CountEvents("tool_start") > 0

\* C2: for every dispatched call the events are at most one ToolLimit, one
\* ToolStart, then exactly one of ToolEnd and ToolError, never both.
C2_CallEventOrder ==
    \A i \in DOMAIN events :
        /\ events[i].type = "tool_limit" =>
              i < Len(events) /\ events[i + 1].type = "tool_start"
                              /\ (i > 1 => events[i - 1].type # "tool_limit")
        /\ events[i].type = "tool_start" =>
              (i < Len(events) => events[i + 1].type \in {"tool_end", "tool_error"})
        /\ events[i].type \in {"tool_end", "tool_error"} =>
              i > 1 /\ events[i - 1].type = "tool_start"

\* C3 as stated: the counter, the reasoning calls and Done's iterations never
\* exceed max_iterations, for every configured value.
C3_IterationBound ==
    /\ (pc # "start" => iteration <= max_iterations)
    /\ reasoning_calls <= max_iterations
    /\ \A i \in EventIndices("done") : events[i].iterations <= max_iterations
\* C3 amended: they never exceed max_iterations when it is at least 0, and
\* stay 0 when it is negative.
NonNegative(n) == IF n < 0 THEN 0 ELSE n
C3_IterationBoundAmended ==
    /\ (pc # "start" => iteration <= NonNegative(max_iterations))
    /\ reasoning_calls <= NonNegative(max_iterations)
    /\ \A i \in EventIndices("done") :
           events[i].iterations <= NonNegative(max_iterations)
C3_Witness ==
    /\ pc = "done"
    /\ capped
    /\ max_iterations >= 2
    /\ iteration = max_iterations
    /\ reasoning_calls = max_iterations

\* C4 as stated: every run that emits Done emits exactly one AnswerStart,
\* before Done, the no-tools preflight included.
C4_AnswerStartBeforeDone ==
    /\ CountEvents("answer_start") <= 1
    /\ \A i \in EventIndices("done") :
           /\ CountEvents("answer_start") = 1
           /\ \A j \in EventIndices("answer_start") : j < i
\* C4 amended: a run with tools registered that emits Done emits exactly
\* one AnswerStart, before Done; the no-tools preflight emits Done without
\* an AnswerStart; no run emits more than one AnswerStart.
C4_AnswerStartBeforeDoneAmended ==
    /\ CountEvents("answer_start") <= 1
    /\ \A i \in EventIndices("done") :
           IF tools = {}
           THEN CountEvents("answer_start") = 0
           ELSE /\ CountEvents("answer_start") = 1
                /\ \A j \in EventIndices("answer_start") : j < i
C4_Witness ==
    /\ pc = "done"
    /\ tools # {}
    /\ capped
    /\ CountEvents("answer_start") = 1

\* C5: tool calls run one at a time in declaration order: the ToolStart
\* events and the tool_result entries follow the order of the requested
\* calls (repeated skills aside), a call is journalled before the next one
\* starts, and an iteration's thinking entry precedes its tool results.
C5_SequentialInOrder ==
    /\ IsPrefix(StartsOf(events), ExpectedStarts)
    /\ IsPrefix(CallsOf(ReadEntries(file)), StartsOf(events))
    /\ Len(CallsOf(ReadEntries(file)))
          = Len(StartsOf(events)) - (IF InCall THEN 1 ELSE 0)
    /\ (pc = "dispatch" /\ idx = 1 /\ TextLen(response.text) > 0) =>
          ReadEntries(file)[Len(file)] = ThinkingEntry(response.text)
C5_Witness ==
    /\ pc = "reason"
    /\ iteration = 1
    /\ TextLen(response.text) > 0
    /\ StartsOf(events) = <<SearchCall, SkillCall>>
    /\ CallsOf(ReadEntries(file)) = <<SearchCall, SkillCall>>

\* tallies, query logs and queries can_call_tool may be asked about, the
\* tallies running past max_calls_per_tool
CountInputs ==
    {EmptyDict} \cup {("web_search" :> n) : n \in 1..(max_calls_per_tool + 1)}
QueryLogInputs == {EmptyDict, ("web_search" :> <<SearchCall.args.query>>)}
QueryInputs == {{}, {<< >>}, {<<"AI", "news">>}, {<<"a", "News", "AI">>}, {<<"stocks">>}}

\* C6: soft limits never block: can_call_tool allows in every state and for
\* every tally, every requested call that is not a repeated skill gets its
\* ToolStart, and every ToolLimit event carries blocked = false.
C6_NeverBlocks ==
    /\ \A c \in limit_check : c.allowed
    /\ \A counts \in CountInputs, queries \in QueryLogInputs, q \in QueryInputs :
           CanCallTool(counts, queries, "web_search", q).allowed
    /\ \A i \in EventIndices("tool_limit") : events[i].blocked = FALSE
    /\ (pc \notin {"dispatch", "invoke", "summarise"}) =>
          StartsOf(events) = ExpectedStarts
    /\ InCall => Len(StartsOf(events)) = Len(dispatched)
C6_Witness ==
    /\ pc = "reason"
    /\ \E i \in EventIndices("tool_limit") :
           /\ events[i + 1] = ToolStartEvent("web_search", SearchCall.args)
    /\ StartsOf(events) = <<SearchCall, SearchCall>>

\* C7: for every skill name X a run emits at most one ToolStart for
\* skill(skill=X), whether the first invocation succeeded or failed.
SkillStarts(X) ==
    {i \in EventIndices("tool_start") :
        events[i].tool = "skill" /\ Get(events[i].args, "skill") = {X}}
C7_SkillStartedOnce ==
    \A X \in {SkillNameOf(c) : c \in ToolCallChoices} : Cardinality(SkillStarts(X)) <= 1
C7_Witness ==
    /\ requested = <<SkillCall, SkillCall>>
    /\ pc = "reason"
    /\ iteration = 2
    /\ Cardinality(SkillStarts("dcf")) = 1
    /\ \E i \in EventIndices("tool_error") : events[i].tool = "skill"

\* C8: tool_call_counts[T] equals the number of calls to T dispatched, one
\* increment per dispatched call, whatever the save and the summary call do.
CallsTo(T) == Cardinality({i \in DOMAIN dispatched : dispatched[i].name = T})
C8_CountsEqualDispatched ==
    (~InCall) =>
        \A T \in {c.name : c \in ToolCallChoices} :
            GetOr(tool_call_counts, T, 0) = CallsTo(T)

\* C9: the journal of the run's scratchpad is append-only: the constructor
\* writes the init entry first, every step leaves the lines written so far
\* as they are and adds at most one line at the end, and reading the journal
\* gives back exactly the entries appended so far, in append order.
C9_JournalAppendOnly ==
    /\ [](/\ ReadEntries(file) = appended
          /\ (pc # "start" /\ tools # {}) =>
                 /\ Len(file) >= 1
                 /\ ReadEntries(file)[1] = InitEntry(Query)
                 /\ \A i \in 2..Len(file) : ReadEntries(file)[i].type # "init")
    /\ [][/\ IsPrefix(file, file')
          /\ Len(file') <= Len(file) + 1
          /\ appended' # appended =>
                 ReadEntries(file') = Append(ReadEntries(file), appended'[Len(appended')])]_vars
C9_Witness ==
    /\ pc = "done"
    /\ Len(file) = 4
    /\ ReadEntries(file)[2].type = "thinking"
    /\ ReadEntries(file)[3].result = {[json |-> "{\"n\": 1}"]}
    /\ StartsWithError(StringifyResult(ReadEntries(file)[4].result))

\* C10: a failed or unregistered tool is not fatal: ToolError carries the
\* message, the journal gets a tool_result starting with "Error:", the run
\* goes on, and the final-answer context leaves that entry out.
ToolFailureIndices ==
    {i \in EventIndices("tool_error") : i > 1 /\ events[i - 1].type = "tool_start"}
StartsUpTo(i) == Cardinality({j \in EventIndices("tool_start") : j < i})
ToolResultEntries == SelectSeq(ReadEntries(file), IsToolResult)
C10_ToolFailureNotFatal ==
    /\ \A i \in ToolFailureIndices :
           /\ events[i].error \in {"permission denied", "Tool not found"}
           /\ Len(ToolResultEntries) >= StartsUpTo(i)
           /\ ToolResultEntries[StartsUpTo(i)].result = {ErrText(events[i].error)}
           /\ ToolResultEntries[StartsUpTo(i)].tool_name = {events[i].tool}
    /\ \A e \in error : e \notin {"permission denied", "Tool not found"}
    /\ \A ctx \in full_context :
           \A k \in DOMAIN (ctx.full \o ctx.summary) :
               ~StartsWithError((ctx.full \o ctx.summary)[k].result)
C10_Witness ==
    /\ pc = "done"
    /\ ToolFailureIndices # {}
    /\ \E i \in ToolFailureIndices : \E j \in EventIndices("tool_start") : j > i
    /\ \E ctx \in full_context : Len(ctx.full) = 1

\* C11: when the model call of a reasoning step raises, the run ends with
\* that propagated error: the failing step emits nothing, no Done and no
\* other event follows it, and no assistant message reaches the session.
ReasonFailed == error = {"model call failed"} /\ final_calls = 0
AssistantMessages == {i \in DOMAIN session : session[i].role = "assistant"}
C11_ReasonErrorIsFatal ==
    /\ [](ReasonFailed =>
            /\ CountEvents("done") = 0
            /\ AssistantMessages = {}
            /\ pc = "raised")
    /\ [][ReasonFailed' => (events' = events /\ session' = session)]_vars
C11_Witness ==
    /\ ReasonFailed
    /\ iteration = 2
    /\ CountEvents("tool_end") > 0
    /\ Len(session) = 1

C19_ThinkingAndStartsBound ==
    max_iterations >= 0 =>
        CountEvents("thinking") + CountEvents("tool_start")
            <= max_iterations * (1 + Cardinality(tools))

\* the last two events are AnswerStart and Done
EndsWithAnswerAndDone ==
    /\ Len(events) >= 2
    /\ events[Len(events) - 1] = AnswerStartEvent
    /\ events[Len(events)].type = "done"
\* the run reached the iteration cap: every reasoning response carried tool
\* calls; cap is the number of reasoning calls expected
CapPath(cap) ==
    capped =>
        /\ reasoning_calls = cap
        /\ pc = "answer" =>
              /\ final_calls = 0
              /\ events # << >> /\ events[Len(events)] = AnswerStartEvent
        /\ pc = "done" =>
              /\ final_calls = 1
              /\ EndsWithAnswerAndDone
              /\ events[Len(events)].iterations = cap
              /\ events[Len(events)].iterations = reasoning_calls

\* C21 as stated: at the cap the driver has made exactly max_iterations
\* reasoning calls, makes one final-answer call, and emits AnswerStart then
\* Done with iterations = max_iterations = the reasoning calls made.
C21_CapPath == CapPath(max_iterations)
\* C21 amended: the same with max(max_iterations, 0) in place of
\* max_iterations (a negative max_iterations gives 0 calls and iterations 0).
C21_CapPathAmended == CapPath(NonNegative(max_iterations))
C21_Witness ==
    /\ capped /\ pc = "done"
    /\ max_iterations = 2
    /\ Len(requested) = 2
    /\ final_calls = 1
    /\ events[Len(events)].iterations = 2

\* the last reasoning response carried no tool calls and no tool result has
\* been journalled in this run (faults aside)
NoCallsNoResults ==
    /\ reasoning_calls > 0
    /\ response.tool_calls = << >>
    /\ pc \in {"direct", "answer", "done"}
    /\ \A i \in DOMAIN appended : appended[i].type # "tool_result"
\* the run ends with AnswerStart and Done(response text, no tool calls) and
\* no further model call
EndsDirectly ==
    /\ final_calls = 0
    /\ pc \in {"direct", "done"}
    /\ pc = "direct" => events # << >> /\ events[Len(events)] = AnswerStartEvent
    /\ pc = "done" =>
          /\ EndsWithAnswerAndDone
          /\ events[Len(events)].answer = response.text
          /\ events[Len(events)].tool_calls = << >>

\* C22 as stated: a reasoning response without tool calls, in a run with no
\* journalled tool result, ends the run at once with AnswerStart and
\* Done(response text, no tool calls), for every text, the empty one included.
C22_DirectAnswer == NoCallsNoResults => EndsDirectly
\* C22 amended: so it is for a non-empty text; for an empty text the driver
\* builds the context, makes the final-answer call and Done carries that
\* call's answer.
C22_DirectAnswerAmended ==
    NoCallsNoResults =>
        IF TextLen(response.text) > 0 THEN EndsDirectly
        ELSE /\ pc \in {"answer", "done"}
             /\ full_context = {ContextText("No data was gathered.", << >>, << >>)}
             /\ pc = "done" =>
                   /\ final_calls = 1
                   /\ EndsWithAnswerAndDone
                   /\ events[Len(events)].answer \in FinalAnswers
C22_Witness ==
    /\ NoCallsNoResults
    /\ pc = "done"
    /\ response.text = Txt("Hi!")
    /\ final_calls = 0
    /\ events[Len(events)].answer = Txt("Hi!")

\* C23: a run given a session key that ends in Done after the model loop has
\* appended, to the normalised form of that key and to no other key, exactly
\* one user message, present before the first model call, and then exactly
\* one assistant message, present when Done is emitted; a run without a
\* session key loads no session and appends nothing.
DoneAfterLoop == tools # {} /\ CountEvents("done") > 0
SessionFailures == {"session load failed", "session append failed"}
C23_SessionAppends ==
    /\ session_key = {} => (session = << >> /\ error \cap SessionFailures = {})
    /\ session_key # {} =>
          /\ \A i \in DOMAIN session :
                session[i].key = <<"agent", ":", "main", ":", "s1">>
          /\ Len(session) <= 2
          /\ reasoning_calls > 0 =>
                /\ Len(session) >= 1
                /\ session[1].role = "user"
                /\ session[1].content = Txt(Query)
          /\ Len(session) = 2 => session[2].role = "assistant"
          /\ DoneAfterLoop => Len(session) = 2
C23_Witness ==
    /\ DoneAfterLoop
    /\ session_key = {<<"agent", ":", "main", ":", "s1">>}
    /\ CountEvents("tool_end") > 0
    /\ session = <<[key |-> <<"agent", ":", "main", ":", "s1">>, role |-> "user",
                    content |-> Txt(Query)],
                   [key |-> <<"agent", ":", "main", ":", "s1">>, role |-> "assistant",
                    content |-> events[Len(events)].answer]>>

\* C24: once a run is cancelled at a suspension point, no event is emitted
\* any more, so no ToolError and no Done follows the cancellation, and the
\* journal keeps exactly the entries written before it.
C24_CancelStopsRun ==
    [][(pc = "cancelled" \/ pc' = "cancelled") =>
            /\ pc' = "cancelled"
            /\ events' = events
            /\ file' = file]_vars
C24_Witness ==
    /\ pc = "cancelled"
    /\ iteration = 2
    /\ events # << >>
    /\ events[Len(events)].type = "tool_start"
    /\ HasToolResults(file)
    /\ CountEvents("done") = 0

\* the tool_result entries journalled so far, and the events that report
\* how each started invocation ended, both in call order
JournalledResults == SelectSeq(appended, LAMBDA e : e.type = "tool_result")
Outcomes ==
    SelectSeq(events, LAMBDA e : e.type = "tool_end"
                                 \/ (e.type = "tool_error"
                                     /\ e.error \in {"Tool not found", "permission denied"}))
\* the k-th executed call returned from its tool and is journalled
SucceededAndJournalled(k) ==
    /\ k \in DOMAIN JournalledResults
    /\ k \in DOMAIN Outcomes
    /\ Outcomes[k].type = "tool_end"

\* C28: when the summary call fails after the tool returned, the run goes
\* on and the tool_result entry of that call holds the result the tool gave,
\* never an error result put in its place.
C28_SummaryFailureKeepsResult ==
    \A k \in DOMAIN JournalledResults :
        (SucceededAndJournalled(k)
            /\ JournalledResults[k].llm_summary
                  # {ErrorSummary(Outcomes[k].tool, Outcomes[k].args, "context save failed")})
        => JournalledResults[k].result = ParseResultSafely(Outcomes[k].result)

\* C29: a failure of save_context after the tool returned is swallowed: no
\* ToolError event reports it, the run goes on, and the call is journalled
\* as a tool_result holding the result the tool gave.
C29_SaveFailureSwallowed ==
    /\ \A e \in EventIndices("tool_error") : events[e].error # "context save failed"
    /\ \A k \in DOMAIN JournalledResults :
          (SucceededAndJournalled(k)
              /\ JournalledResults[k].llm_summary
                    # {ErrorSummary(Outcomes[k].tool, Outcomes[k].args, "summary call failed")})
          => JournalledResults[k].result = ParseResultSafely(Outcomes[k].result)

\* C38: in a run with a session key that has emitted Done, the assistant
\* message appended to the session has the answer of the Done event as its
\* content, on every path, the iteration cap with an empty final response
\* included.
C38_SessionAnswerIsDoneAnswer ==
    session_key # {} =>
        \A i \in EventIndices("done") :
            \A j \in DOMAIN session :
                session[j].role = "assistant" =>
                    session[j].content = events[i].answer

\* ===================================================================
\* Properties of the session manager (SeqStoreSpec, StoreSpec)
\* ===================================================================
RECURSIVE WithoutMarks(_)
WithoutMarks(h) ==
    IF h = << >> THEN << >>
    ELSE IF Head(h) = RestartMark THEN WithoutMarks(Tail(h))
         ELSE <<Head(h)>> \o WithoutMarks(Tail(h))
RECURSIVE SinceRestart(_)
SinceRestart(h) ==
    IF h = << >> THEN << >>
    ELSE IF h[Len(h)] = RestartMark THEN << >>
         ELSE Append(SinceRestart(SubSeq(h, 1, Len(h) - 1)), h[Len(h)])
\* the messages whose append returned: ever, and in the running process
AllAppended == WithoutMarks(returned)
AppendedHere == SinceRestart(returned)
IsSuffix(s, t) == Len(s) <= Len(t) /\ SubSeq(t, Len(t) - Len(s) + 1, Len(t)) = s

\* C13: with calls made one after the other, once append(key, m) has
\* returned the cache list ends with m, a load or get that follows returns a
\* list ending with m, and a load on an empty cache (after a restart)
\* returns every message appended before, in append order.
C13_AppendThenLoad ==
    \A t \in DOMAIN tasks :
        tasks[t].pc = "idle" =>
            /\ tasks[t].op = "append" =>
                   /\ StoreKey \in DOMAIN cache
                   /\ cache[StoreKey][Len(cache[StoreKey])] = The(tasks[t].msg)
            /\ (tasks[t].op \in {"load", "get"} /\ AppendedHere # << >>) =>
                   LET ret == The(tasks[t].ret)
                   IN /\ ret # << >>
                      /\ ret[Len(ret)] = AppendedHere[Len(AppendedHere)]
            /\ (tasks[t].op = "load" /\ tasks[t].missed) =>
                   IsSuffix(AllAppended, The(tasks[t].ret))
C13_Witness ==
    /\ Restarts = 1
    /\ tasks[1].op = "load" /\ tasks[1].pc = "idle" /\ tasks[1].missed
    /\ Len(AllAppended) = 2
    /\ The(tasks[1].ret) = <<OldMessage, NewMessage(1), NewMessage(2)>>

\* C14: under any interleaving of load and append calls on one key no
\* appended message is lost from the cache, and the messages of the cache
\* are in the order of the lines of the session file.
StartedHere ==
    Range(AppendedHere) \cup {The(tasks[t].msg) : t \in {u \in InFlight : tasks[u].op = "append"}}
Position(s, x) == CHOOSE i \in DOMAIN s : s[i] = x
SameOrder(s, t) ==
    \A i, j \in DOMAIN s :
        (i < j /\ s[i] \in Range(t) /\ s[j] \in Range(t)) =>
            Position(t, s[i]) < Position(t, s[j])
C14_NoLostMessage ==
    /\ \A m \in StartedHere :
           StoreKey \in DOMAIN cache /\ m \in Range(cache[StoreKey])
    /\ (InFlight = {} /\ StoreKey \in DOMAIN cache) =>
           SameOrder(cache[StoreKey], ParseLines(GetOr(disk, GetPath(StoreKey), << >>)))

\* the session file of the key: the quoted path, or the legacy path when
\* only that one exists
SessionFile ==
    IF GetPath(StoreKey) \in DOMAIN disk THEN disk[GetPath(StoreKey)]
    ELSE GetOr(disk, GetLegacyPath(StoreKey), << >>)
\* C35: with no call in flight, a cache entry for the key equals the messages
\* of the key's session file; an append on a key not yet loaded does not
\* hide the messages already on disk.
C35_CacheEqualsFile ==
    (InFlight = {} /\ StoreKey \in DOMAIN cache) =>
        cache[StoreKey] = ParseLines(SessionFile)

\* C36: once load has returned H, every later load, also after appends and
\* a restart, returns H followed by the messages appended since.
C36_HistoryKept ==
    \A t \in DOMAIN tasks :
        (tasks[t].pc = "idle" /\ tasks[t].op = "load" /\ known_history # {}) =>
            The(tasks[t].ret) = The(known_history)

\* ===================================================================
\* Properties of the session keys (KeySpec)
\* ===================================================================
\* C15: session-key normalisation is idempotent: resolving a resolved key
\* again, passed as session_key or as session_id, returns the same key.
C15_ResolveIdempotent ==
    \A i \in DOMAIN key_results : key_results[i] = key_results[1]
C15_Witness ==
    /\ Len(key_results) = 2
    /\ key_args.session_key = {<<" ", "S1", ":", "Main">>}
    /\ key_args.agent_id = {<<" ", "S1", ":", "Main">>}
    /\ key_results[2] = <<"agent", ":", "s1", "-", "main", ":", "s1", ":", "main">>

\* C16: for every input resolve_session_key returns a canonical key
\* agent:<agent_id>:<rest>, one that parse_agent_session_key accepts, inputs
\* starting with "agent:" included.
C16_ResolveCanonical ==
    \A i \in DOMAIN key_results : parse_agent_session_key({key_results[i]}) # {}

\* ===================================================================
\* Properties of the tool context store (ContextSpec)
\* ===================================================================
SavedAt(i) == context_saves[i].filepath # {}
SameCall(i, j) ==
    /\ context_saves[i].tool_name = context_saves[j].tool_name
    /\ DictEq(context_saves[i].args, context_saves[j].args)
LatestSame(i) ==
    CHOOSE j \in DOMAIN context_saves :
        /\ SavedAt(j) /\ SameCall(i, j)
        /\ \A k \in DOMAIN context_saves : SavedAt(k) /\ SameCall(i, k) => k <= j

\* C17: tool-context records are partitioned by query_id: every pointer that
\* get_pointers_for_query(q) returns refers to a file whose stored query_id
\* is q, whatever was saved under other query ids.
C17_QueryPartition ==
    \A query_id \in QueryIds :
        \A pointer \in Range(GetPointersForQuery(query_id)) :
            \A context \in Range(LoadContextsFrom(context_files, <<pointer.filepath>>)) :
                context.query_id = query_id

\* C18: two saves with the same tool_name and equal args, in whatever key
\* order, write to the same file, and loading that file returns the
\* tool_name, args and result of the latest of them.
C18_SameArgsSameFile ==
    \A i, j \in DOMAIN context_saves :
        (i < j /\ SavedAt(i) /\ SavedAt(j) /\ SameCall(i, j)) =>
            /\ context_saves[i].filepath = context_saves[j].filepath
            /\ LET latest == context_saves[LatestSame(i)]
                   loaded == LoadContextsFrom(context_files,
                                              <<The(context_saves[i].filepath)>>)
               IN /\ Len(loaded) = 1
                  /\ loaded[1].tool_name = latest.tool_name
                  /\ DictEq(loaded[1].args, latest.args)
                  /\ loaded[1].result = latest.result

\* C30: a save whose result string is a JSON object with a top-level
\* source_urls array and a data field stores a record, and appends a pointer,
\* whose source_urls is that array, and the stored result is the decoded data.
LastSave == context_saves[Len(context_saves)]
C30_SourceUrlsExtracted ==
    (context_saves # << >> /\ LastSave.result \in {ToolResultText, CamelResultText})
    => /\ LastSave.filepath # {}
       /\ The(LastSave.filepath) \in DOMAIN context_files
       /\ context_files[The(LastSave.filepath)].json.result = [json |-> "{\"n\": 1}"]
       /\ context_files[The(LastSave.filepath)].json.source_urls = {[json |-> "[\"u\"]"]}
       /\ context_pointer # << >>
       /\ context_pointer[Len(context_pointer)].source_urls = {[json |-> "[\"u\"]"]}

\* C34: save_context never raises on a string result that is not JSON, is a
\* JSON array, or is a JSON object without a data field: the record is
\* written with the result as given and one pointer is appended.
StoredAsGiven(result) ==
    \/ JsonLoads(result) = {}
    \/ ~IsObject(JsonLoads(result))
    \/ Get(The(JsonLoads(result)).object, "data") = {}
C34_SaveNeverRaises ==
    \A i \in DOMAIN context_saves :
        StoredAsGiven(context_saves[i].result) =>
            /\ context_saves[i].filepath # {}
            /\ Len(context_pointer) >= i
            /\ i = Len(context_saves) =>
                  /\ Len(context_pointer) = i
                  /\ context_files[The(context_saves[i].filepath)].json.result
                        = context_saves[i].result

\* ===================================================================
\* Properties of the tool-call limits (PadSpec)
\* ===================================================================
\* the call being checked repeats, with the same query string, a call of the
\* same tool recorded earlier
CheckedRepeat ==
    /\ limit_check # {}
    /\ cur.tool_query # {}
    /\ \E i \in DOMAIN dispatched :
          /\ dispatched[i].name = cur.tool_name
          /\ ExtractQueryFromArgs(dispatched[i].args) = cur.tool_query
WarningKinds == {w.kind : w \in The(limit_check).warning}
CheckedCount == GetOr(tool_call_counts, cur.tool_name, 0)

\* C20 as stated: a further call of tool T with exactly the query string Q of
\* an earlier call of T gets the similar-query warning, for every count >= 1.
C20_RepeatWarnsSimilar ==
    CheckedRepeat => WarningKinds = {"similar"}
\* C20 amended: for a non-empty Q it gets the similar-query warning, naming
\* the attempts left, while the count is below max_calls_per_tool, and the
\* over-limit warning from then on; an empty Q is never compared.
C20_RepeatWarnsSimilarAmended ==
    CheckedRepeat =>
        IF CheckedCount >= max_calls_per_tool
        THEN WarningKinds = {"over_limit"}
        ELSE IF cur.tool_query = {<< >>}
        THEN "similar" \notin WarningKinds
        ELSE The(limit_check).warning =
                {[kind |-> "similar", remaining |-> max_calls_per_tool - CheckedCount]}
C20_Witness ==
    /\ CheckedRepeat
    /\ cur.tool_query = {<<"a", "x">>}
    /\ CheckedCount = 2
    /\ WarningKinds = {"similar"}

\* C27: can_call_tool answers the over-limit warning when the count of the
\* tool is at least max_calls_per_tool; otherwise the similar-query warning
\* when a non-empty query is given that equals, or shares enough words with,
\* a query recorded for the tool; otherwise the approaching-limit warning
\* when the count is max_calls_per_tool - 1; otherwise no warning.  The call
\* leaves tool_call_counts and tool_queries as they were.
RecordedQueries ==
    {The(ExtractQueryFromArgs(dispatched[i].args)) :
        i \in {j \in DOMAIN dispatched :
                  /\ dispatched[j].name = cur.tool_name
                  /\ ExtractQueryFromArgs(dispatched[j].args) \notin {{}, {<< >>}}}}
CheckedSimilar ==
    /\ cur.tool_query \notin {{}, {<< >>}}
    /\ \E prev \in RecordedQueries :
          \/ The(cur.tool_query) = prev
          \/ SimilarSets(Tokenize(The(cur.tool_query)), Tokenize(prev))
ExpectedWarning ==
    IF CheckedCount >= max_calls_per_tool THEN {"over_limit"}
    ELSE IF CheckedSimilar THEN {"similar"}
    ELSE IF CheckedCount = max_calls_per_tool - 1 THEN {"approaching"}
    ELSE {}
C27_WarningPriority ==
    /\ [](limit_check # {} => WarningKinds = ExpectedWarning)
    /\ [][(limit_check = {} /\ limit_check' # {}) =>
            (tool_call_counts' = tool_call_counts /\ tool_queries' = tool_queries)]_vars
C27_Witness ==
    /\ limit_check # {}
    /\ CheckedCount = max_calls_per_tool
    /\ CheckedSimilar
    /\ WarningKinds = {"over_limit"}
    /\ tool_queries[cur.tool_name] = <<<<"AI", "news">>, <<"stocks">>, <<"AI", "news">>>>

\* ===================================================================
\* Properties of the memory search (specification MemorySpec)
\* ===================================================================
\* C25: in one search, of two scored entries with the same content and the
\* same tags, the one created later never has the lower score.
SameText(a, b) == a.content = b.content /\ a.tags = b.tags
C25_NewerNotLower ==
    \A i, j \in DOMAIN scored :
        (/\ SameText(scored[i].entry, scored[j].entry)
         /\ scored[j].entry.created_at > scored[i].entry.created_at)
        => scored[j].score >= scored[i].score

\* the keyword sum with the tag bonus given whether or not the content matches
RECURSIVE IndependentScore(_, _)
IndependentScore(entry, terms) ==
    IF terms = << >> THEN 0
    ELSE (IF TermInText(Head(terms), entry.content) THEN 10 * DecayHours ELSE 0)
         + (IF \E i \in DOMAIN entry.tags : Contains(Lower(entry.tags[i]), Head(terms))
            THEN 5 * DecayHours ELSE 0)
         + IndependentScore(entry, Tail(terms))
\* C32: search returns exactly the entries whose keyword sum (1.0 per term
\* found in the content plus 0.5 per term found in a tag, the two counted
\* independently) is positive, each scored as that sum plus the recency
\* boost, highest score first, at most limit of them.
C32_SearchScores ==
    search_result # {} =>
        LET result == The(search_result)
            positive == {i \in DOMAIN memory_entries :
                            IndependentScore(memory_entries[i], query_terms) > 0}
        IN /\ Len(result) = IF Cardinality(positive) < SearchLimit
                            THEN Cardinality(positive) ELSE SearchLimit
           /\ \A k \in DOMAIN result :
                 /\ \E i \in positive : memory_entries[i] = result[k].entry
                 /\ \E now \in ClockValues :
                       result[k].score = IndependentScore(result[k].entry, query_terms)
                                         + RecencyBoost(now, result[k].entry.created_at)
           /\ \A k \in 1..(Len(result) - 1) : result[k].score >= result[k + 1].score

\* ===================================================================
\* Properties of the message history (specification HistorySpec)
\* ===================================================================
\* C26: the relevance cache never holds a selection whose prompt listed a
\* history other than the present one: every add_message that has completed
\* has removed the selections computed before its message was there.
C26_CacheFollowsHistory ==
    \A cacheKey \in DOMAIN relevantMessagesByQuery :
        selection_basis[cacheKey] = history_messages

\* ===================================================================
\* Properties of the context selection (specification SelectionSpec)
\* ===================================================================
AnswerIsArray == selection_response # {} /\ The(selection_response) # {}
                 /\ "array" \in DOMAIN The(The(selection_response))
AnswerArray == The(The(selection_response)).array
\* every valid entry once, in full only when selected, within the budget
MixedContext(c) ==
    /\ c.kind = "selected"
    /\ Len(c.full) + Len(c.summary) = Len(valid_contexts)
    /\ \A i \in DOMAIN valid_contexts :
          Cardinality({j \in DOMAIN c.full : c.full[j] = valid_contexts[i]})
          + Cardinality({j \in DOMAIN c.summary : c.summary[j] = valid_contexts[i]}) = 1
    /\ \A j \in DOMAIN c.full : IntElem(c.full[j].index) \in Range(AnswerArray)
    /\ SumTokens(c.full) <= 8000
\* C31 as stated: whenever the selection call answers a JSON array, the
\* context has every valid entry exactly once, in full under Full Data or as
\* its summary under Summary Data, in full only if its index is in the
\* array, and the entries in full cost at most 8000 tokens together.
C31_SelectedContext ==
    (AnswerIsArray /\ built_context # {}) => MixedContext(The(built_context))
\* C31 amended: that holds when no element of the array is itself an array
\* or an object; otherwise every valid entry appears once, as its summary,
\* under Data Summaries.
C31_SelectedContextAmended ==
    (AnswerIsArray /\ built_context # {}) =>
        IF \A i \in DOMAIN AnswerArray : "list" \notin DOMAIN AnswerArray[i]
        THEN MixedContext(The(built_context))
        ELSE The(built_context) = ContextText("summaries", << >>, valid_contexts)
C31_Witness ==
    /\ AnswerIsArray
    /\ built_context # {}
    /\ AnswerArray = <<IntElem(1), IntElem(2)>>
    /\ Len(valid_contexts) = 3
    /\ Len(The(built_context).full) = 1
    /\ The(built_context).full[1].index = 1
    /\ estimate_tokens(valid_contexts[2].result) = 5000
    /\ Len(The(built_context).summary) = 2

\* ===================================================================
\* Properties of the scratchpads of several runs (specification JournalSpec)
\* ===================================================================
\* C33: what a run's scratchpad reads back is what that run appended, and
\* nothing else: the entries has_tool_results, has_executed_skill,
\* get_tool_call_records and the final context are computed from are the
\* run's own, also when another run of the same query starts in the same
\* second.
C33_RunsShareNoJournal ==
    \A run \in DOMAIN scratchpads : RunReadEntries(run) = own_entries[run]

\* ===================================================================
\* Properties of MemoryManager.add (specification ManagerSpec)
\* ===================================================================
AddsCompleted == \A t \in DOMAIN add_tasks : add_tasks[t].pc = "idle"
ReturnedIds == UNION {add_tasks[t].ret : t \in DOMAIN add_tasks}
\* C37: once all the add calls have completed, every entry whose id was
\* returned is among the entries in memory and among those of index.json.
C37_NoAddLost ==
    AddsCompleted =>
        \A id \in ReturnedIds :
            /\ \E i \in DOMAIN manager_entries : manager_entries[i].id = id
            /\ index_json # {} /\ The(index_json) # NotJson
            /\ \E i \in DOMAIN The(index_json).data : The(index_json).data[i].id = id

\* ===================================================================
\* Properties of the browser sessions (specification BrowserFairSpec)
\* ===================================================================
\* C39: every call of create_session, close_session and
\* cleanup_all_sessions eventually returns or raises, and when
\* cleanup_all_sessions returns there are no sessions and no browser.
C39_EveryCallReturns ==
    /\ \A t \in BrowserTasks :
          (browser_tasks[t].pc # "idle") ~> (browser_tasks[t].pc = "idle")
    /\ [][\A t \in BrowserTasks :
            (/\ browser_tasks[t].op = "cleanup_all_sessions"
             /\ browser_tasks[t].pc # "idle"
             /\ browser_tasks'[t].pc = "idle")
            => (DOMAIN browser_sessions' = {} /\ ~browser_open')]_vars

====
